---- MODULE Spec2Model ----
(***************************************************************************)
(* Verification model of secure-llm-proxy (src/proxy): the token-bucket    *)
(* rate limiter, the SQLite usage ledger, the budget enforcer, the        *)
(* authentication step and the chat-completions request pipeline.          *)
(*                                                                         *)
(* Specifications.  Spec: requests through chat_completions on one event   *)
(* loop.  SpecLedger: concurrent callers of UsageStore.add.  SpecRate:     *)
(* sequential RateLimiter.check calls under an arbitrary clock.            *)
(* SpecBudget: sequential rounds of enforce_budgets and record_usage.      *)
(*                                                                         *)
(* Units.  The wall clock `now` is in whole seconds since the epoch.       *)
(* Bucket tokens are kept in sixtieths of a token (TokUnit), so that the   *)
(* refill elapsed * rpm / 60 is exact.  Money is kept in thousandths of a  *)
(* dollar, so that tokens / 1000 * price_per_1k is exact.                  *)
(***************************************************************************)
EXTENDS Integers, Sequences, FiniteSets, TLC

VARIABLES
    now,        \* the wall clock read by time.time() and utc_now()
    settings,   \* the Settings instance of the process (fixed after start)
    buckets,    \* RateLimiter._buckets: key -> TokenBucket
    usage,      \* the usage table: <<scope, scope_key, api_key>> -> row
    files,      \* the audit partitions: day -> sequence of written events
    upstream,   \* the calls the upstream collaborator has received
    running,    \* the coroutine the event loop is running (None: loop idle)
    pc,         \* control point of every thread of execution
    loc,        \* local variables of every thread of execution
    policies,   \* the loaded key policies: key -> KeyPolicy (fixed after start)
    issued      \* history: per triple, the sum of the deltas handed to add

vars == <<now, settings, policies, buckets, usage, files, upstream, running, pc, loc, issued>>

----------------------------------------------------------------------------
(* Bounds of the model *)

NumProcs == 2       \* threads of execution (requests, concurrent callers)
MaxCalls == 2       \* calls a driver thread makes
MaxChecks == 4      \* RateLimiter.check calls of the rate-limiter scenario
MaxRounds == 4      \* enforce_budgets / record_usage rounds of the budget scenario

Procs == 1..NumProcs

----------------------------------------------------------------------------
(* Small helpers *)

Min(a, b) == IF a <= b THEN a ELSE b
Max(a, b) == IF a >= b THEN a ELSE b

EmptyFn == [x \in {} |-> 0]

Zero3 == <<0, 0, 0>>
Plus3(a, b) == <<a[1] + b[1], a[2] + b[2], a[3] + b[3]>>

\* Exceptions: an HTTPException carries (status_code, detail); any other
\* exception that leaves a route handler is answered with status 500.
NoExc == [status |-> 0, detail |-> ""]
HTTPException(code, detail) == [status |-> code, detail |-> detail]
IntegrityError == [status |-> 500, detail |-> "sqlite3.IntegrityError"]

----------------------------------------------------------------------------
(* Clock and calendar (limits.py utc_now, day_key, month_key)              *)

SecondsPerDay == 24 * 60 * 60

\* The UTC calendar date of a day number counted from 1970-01-01, for the
\* days of January and February 1970 (the window the model's clock covers).
CivilDate(n) == IF n < 31 THEN <<1970, 1, n + 1>> ELSE <<1970, 2, n - 30>>

\* day_key: strftime("%Y-%m-%d") of the UTC time t, as <<year, month, day>>.
day_key(t) == CivilDate(t \div SecondsPerDay)

\* month_key: strftime("%Y-%m") of the UTC time t, as <<year, month>>.
month_key(t) == <<CivilDate(t \div SecondsPerDay)[1], CivilDate(t \div SecondsPerDay)[2]>>

----------------------------------------------------------------------------
(* Configuration (config.py)                                               *)

\* A str | None header or setting: None is [some |-> FALSE].
Absent == [some |-> FALSE, val |-> <<>>]
Str(s) == [some |-> TRUE, val |-> s]
\* Python truthiness of a str | None value.
Truthy(o) == o.some /\ Len(o.val) > 0

KeyDemo == <<"d", "e", "m", "o", "-", "k", "e", "y">>
KeyShort == <<"k", "1">>
KeyWrong == <<"w", "r", "o", "n", "g">>

KeyPolicy(key, tenant, rpm, burst, mrd, mtd, mud, mum) ==
    [key |-> key, tenant |-> tenant, rpm |-> rpm, burst |-> burst,
     max_requests_per_day |-> mrd, max_tokens_per_day |-> mtd,
     max_usd_per_day |-> mud, max_usd_per_month |-> mum]

NoPolicy == KeyPolicy(<<>>, "", 0, 0, 0, 0, 0, 0)

\* load_key_policies: the mapping key -> KeyPolicy of a list of policies.
load_key_policies(items) == [k \in {it.key : it \in items} |->
                                CHOOSE it \in items : it.key = k]

\* Settings(): the defaults of config.py, with the upstream key set.
DefaultSettings ==
    [max_request_bytes |-> 262144,
     openai_api_key |-> Str(<<"s", "k">>),
     store_raw_in_audit |-> FALSE,
     redact_emails_phones |-> FALSE,
     price_per_1k_input_usd |-> 0,
     price_per_1k_output_usd |-> 0]

\* An int | None value; `x or dflt` takes dflt for None and for 0.
NoInt == [some |-> FALSE, val |-> 0]
Int_(n) == [some |-> TRUE, val |-> n]
IntOr(o, dflt) == IF o.some /\ o.val # 0 THEN o.val ELSE dflt

----------------------------------------------------------------------------
(* Authentication (auth.py)                                                *)

\* require_proxy_key: the exception raised (NoExc when it returns) and the
\* policy of the AuthContext returned.
require_proxy_key_presence_only(pols, x_proxy_key) ==
    IF ~Truthy(x_proxy_key)
    THEN [exc |-> HTTPException(401, "Missing X-Proxy-Key"), key_policy |-> NoPolicy]
    ELSE IF x_proxy_key.val \notin DOMAIN pols
    THEN [exc |-> NoExc, key_policy |-> [NoPolicy EXCEPT !.key = x_proxy_key.val]]
    ELSE [exc |-> NoExc, key_policy |-> pols[x_proxy_key.val]]

require_proxy_key(pols, x_proxy_key) ==
    IF ~Truthy(x_proxy_key)
    THEN [exc |-> HTTPException(401, "Missing X-Proxy-Key"), key_policy |-> NoPolicy]
    ELSE IF x_proxy_key.val \notin DOMAIN pols
    THEN [exc |-> HTTPException(403, "Invalid proxy key"), key_policy |-> NoPolicy]
    ELSE [exc |-> NoExc, key_policy |-> pols[x_proxy_key.val]]

----------------------------------------------------------------------------
(* Prompt text (main.py build_prompt, estimate_tokens; redaction.py)       *)
(*                                                                         *)
(* A text is a sequence of whitespace-separated words; a word is a pair    *)
(* <<class, spelling>>.  Message contents are non-empty.                   *)

Lit(w) == <<"lit", w>>
Placeholder(kind) == <<"REDACTED", kind>>

WordHello == Lit("hello")
WordOpenAIKey == Lit("sk-1234567890abcdefghijklmnop")
WordPassword == Lit("password=supersecret123")

\* The kinds of _PATTERNS, in order, and the words of the model each matches.
PatternKinds == <<"openai_key", "aws_access_key", "jwt", "password_kv", "bearer_token">>
Matches(kind, w) ==
    \/ kind = "openai_key" /\ w = WordOpenAIKey
    \/ kind = "password_kv" /\ w = WordPassword

\* len() of a word in characters; "[REDACTED:" and "]" are 11 characters.
CharLen(w) ==
    IF w[1] = "REDACTED"
    THEN 11 + (CASE w[2] = "openai_key" -> 10 [] w[2] = "aws_access_key" -> 14
                 [] w[2] = "jwt" -> 3 [] w[2] = "password_kv" -> 11
                 [] w[2] = "bearer_token" -> 12 [] OTHER -> 5)
    ELSE CASE w = WordHello -> 5 [] w = WordOpenAIKey -> 29 [] w = WordPassword -> 23
           [] w = Lit("USER:") -> 5 [] w = Lit("SYSTEM:") -> 7
           [] w = Lit("ASSISTANT:") -> 10 [] OTHER -> 5

RECURSIVE SumLen(_)
SumLen(text) == IF text = <<>> THEN 0 ELSE CharLen(Head(text)) + SumLen(Tail(text))

\* len(text): the words and one separator between neighbours.
TextLen(text) == IF text = <<>> THEN 0 ELSE SumLen(text) + Len(text) - 1

\* estimate_tokens: max(1, ceil(len(text) / 4)).
estimate_tokens(text) == Max(1, (TextLen(text) + 3) \div 4)

Upper(role) == CASE role = "user" -> "USER:" [] role = "system" -> "SYSTEM:"
                 [] role = "assistant" -> "ASSISTANT:" [] OTHER -> "TOOL:"

\* build_prompt: "ROLE: content" per message, joined, then "ASSISTANT:".
RECURSIVE PromptParts(_)
PromptParts(messages) ==
    IF messages = <<>> THEN <<>>
    ELSE <<Lit(Upper(Head(messages).role))>> \o Head(messages).content
            \o PromptParts(Tail(messages))

build_prompt(messages) == PromptParts(messages) \o <<Lit("ASSISTANT:")>>

\* One pass of pat.subn over the text: the new text and the number of matches.
SubN(kind, text) ==
    [text |-> [i \in 1..Len(text) |->
                  IF Matches(kind, text[i]) THEN Placeholder(kind) ELSE text[i]],
     n |-> Cardinality({i \in 1..Len(text) : Matches(kind, text[i])})]

\* _bump: categories with a zero count are not entered.
Bump(counts, name, n) ==
    IF n > 0
    THEN (name :> (IF name \in DOMAIN counts THEN counts[name] ELSE 0) + n) @@ counts
    ELSE counts

RECURSIVE RedactPasses(_, _, _)
RedactPasses(kinds, text, counts) ==
    IF kinds = <<>> THEN [text |-> text, counts |-> counts]
    ELSE LET r == SubN(Head(kinds), text)
         IN  RedactPasses(Tail(kinds), r.text, Bump(counts, Head(kinds), r.n))

\* redact_text: the passes of _PATTERNS in order, then email and phone when
\* redact_emails_phones is set.
redact_text(text, redact_emails_phones) ==
    RedactPasses(IF redact_emails_phones
                 THEN PatternKinds \o <<"email", "phone">> ELSE PatternKinds,
                 text, EmptyFn)

\* prompt_fingerprint: the SHA-256 digest, taken as collision-free.
prompt_fingerprint(text) == <<"sha256", text>>

\* estimate_cost_usd, in thousandths of a dollar.
estimate_cost_usd(cfg, input_tokens, output_tokens) ==
    IF cfg.price_per_1k_input_usd <= 0 /\ cfg.price_per_1k_output_usd <= 0
    THEN 0
    ELSE input_tokens * Max(0, cfg.price_per_1k_input_usd)
            + output_tokens * Max(0, cfg.price_per_1k_output_usd)

NoBody == [nbytes |-> 0, model |-> Absent, messages |-> <<>>, max_tokens |-> NoInt]
NoResponse == [status |-> 0, request_id |-> 0]

----------------------------------------------------------------------------
(* UsageStore (limits.py)                                                  *)

NoRow == [absent |-> TRUE]


\* The row a SELECT ... WHERE scope=? AND scope_key=? AND api_key=? fetches.
SelectRow(u, t) == IF t \in DOMAIN u THEN u[t] ELSE NoRow

\* UsageStore.get: zeros when there is no row.
StoreGet(u, t) ==
    IF SelectRow(u, t) = NoRow
    THEN Zero3
    ELSE <<u[t].requests, u[t].tokens, u[t].usd>>

\* The statement UsageStore.add executes after its SELECT returned `cur`:
\* INSERT when the SELECT saw no row, UPDATE with cur + delta otherwise.
\* An INSERT on a key that exists by now violates the PRIMARY KEY and
\* raises sqlite3.IntegrityError; the transaction is rolled back.
AddWrite_overwriting(u, call, cur) ==
    IF cur = NoRow
    THEN IF call.triple \in DOMAIN u
         THEN [usage |-> u, exc |-> IntegrityError]
         ELSE [usage |-> (call.triple :> [tenant |-> call.tenant,
                                          requests |-> call.delta[1],
                                          tokens |-> call.delta[2],
                                          usd |-> call.delta[3]]) @@ u,
               exc |-> NoExc]
    ELSE [usage |-> [u EXCEPT ![call.triple] =
                        [@ EXCEPT !.requests = call.delta[1],
                                  !.tokens = call.delta[2],
                                  !.usd = call.delta[3]]],
          exc |-> NoExc]

AddWrite(u, call, cur) ==
    IF cur = NoRow
    THEN IF call.triple \in DOMAIN u
         THEN [usage |-> u, exc |-> IntegrityError]
         ELSE [usage |-> (call.triple :> [tenant |-> call.tenant,
                                          requests |-> call.delta[1],
                                          tokens |-> call.delta[2],
                                          usd |-> call.delta[3]]) @@ u,
               exc |-> NoExc]
    ELSE [usage |-> [u EXCEPT ![call.triple] =
                        [@ EXCEPT !.requests = cur.requests + call.delta[1],
                                  !.tokens = cur.tokens + call.delta[2],
                                  !.usd = cur.usd + call.delta[3]]],
          exc |-> NoExc]

----------------------------------------------------------------------------
(* TokenBucket and RateLimiter (limits.py)                                 *)

TokUnit == 60       \* sixtieths of a token: refill_per_sec = rpm / 60.0

\* TokenBucket.take(amount) at clock reading t: the bucket afterwards and
\* the boolean returned.
take_strict(b, t, amount) ==
    LET elapsed == Max(0, t - b.last_ts)
        refilled == Min(b.capacity, b.tokens + elapsed * b.refill_per_sec)
    IN  IF refilled > amount
        THEN [bucket |-> [b EXCEPT !.last_ts = t, !.tokens = refilled - amount], ok |-> TRUE]
        ELSE [bucket |-> [b EXCEPT !.last_ts = t, !.tokens = refilled], ok |-> FALSE]

take_deducting(b, t, amount) ==
    LET elapsed == Max(0, t - b.last_ts)
        refilled == Min(b.capacity, b.tokens + elapsed * b.refill_per_sec)
    IN  IF refilled >= amount
        THEN [bucket |-> [b EXCEPT !.last_ts = t, !.tokens = refilled - amount], ok |-> TRUE]
        ELSE [bucket |-> [b EXCEPT !.last_ts = t, !.tokens = refilled - amount], ok |-> FALSE]

take(b, t, amount) ==
    LET elapsed == Max(0, t - b.last_ts)
        refilled == Min(b.capacity, b.tokens + elapsed * b.refill_per_sec)
    IN  IF refilled >= amount
        THEN [bucket |-> [b EXCEPT !.last_ts = t, !.tokens = refilled - amount], ok |-> TRUE]
        ELSE [bucket |-> [b EXCEPT !.last_ts = t, !.tokens = refilled], ok |-> FALSE]

\* The bucket RateLimiter.check creates for a key it has not seen.
NewBucket(rpm, burst, t) ==
    [capacity |-> burst * TokUnit, refill_per_sec |-> rpm,
     tokens |-> burst * TokUnit, last_ts |-> t]

\* RateLimiter.check(key, rpm, burst) at clock reading t: the bucket map
\* afterwards and the exception raised (NoExc when the call returns).
check(bs, key, rpm, burst, t) ==
    IF rpm <= 0
    THEN [buckets |-> bs, exc |-> NoExc]
    ELSE LET b == IF key \in DOMAIN bs THEN bs[key] ELSE NewBucket(rpm, burst, t)
             r == take(b, t, 1 * TokUnit)
         IN  [buckets |-> (key :> r.bucket) @@ bs,
              exc |-> IF r.ok THEN NoExc ELSE HTTPException(429, "Rate limit exceeded")]

----------------------------------------------------------------------------
(* Budget enforcer (limits.py enforce_budgets)                             *)

ExcRequests == HTTPException(429, "Daily request cap exceeded")
ExcTokens == HTTPException(429, "Daily token cap exceeded")
ExcDailySpend == HTTPException(402, "Daily spend cap exceeded")
ExcMonthlySpend == HTTPException(402, "Monthly spend cap exceeded")

\* The checks of enforce_budgets on the totals it read: d = (d_req, d_tok,
\* d_usd), m_usd, and the prospective charge add = (requests, tokens, usd).
\* The result is the exception raised, NoExc when the call returns.
budget_checks_tokens_first(d, m_usd, add, policy) ==
    IF d[2] + add[2] > policy.max_tokens_per_day THEN ExcTokens
    ELSE IF d[1] + add[1] > policy.max_requests_per_day THEN ExcRequests
    ELSE IF policy.max_usd_per_day > 0 /\ d[3] + add[3] > policy.max_usd_per_day
         THEN ExcDailySpend
    ELSE IF policy.max_usd_per_month > 0 /\ m_usd + add[3] > policy.max_usd_per_month
         THEN ExcMonthlySpend
    ELSE NoExc

budget_checks_off_by_one(d, m_usd, add, policy) ==
    IF d[1] + add[1] >= policy.max_requests_per_day THEN ExcRequests
    ELSE IF d[2] + add[2] > policy.max_tokens_per_day THEN ExcTokens
    ELSE IF policy.max_usd_per_day > 0 /\ d[3] + add[3] > policy.max_usd_per_day
         THEN ExcDailySpend
    ELSE IF policy.max_usd_per_month > 0 /\ m_usd + add[3] > policy.max_usd_per_month
         THEN ExcMonthlySpend
    ELSE NoExc

budget_checks_ignoring_add(d, m_usd, add, policy) ==
    IF d[1] > policy.max_requests_per_day THEN ExcRequests
    ELSE IF d[2] + add[2] > policy.max_tokens_per_day THEN ExcTokens
    ELSE IF policy.max_usd_per_day > 0 /\ d[3] + add[3] > policy.max_usd_per_day
         THEN ExcDailySpend
    ELSE IF policy.max_usd_per_month > 0 /\ m_usd + add[3] > policy.max_usd_per_month
         THEN ExcMonthlySpend
    ELSE NoExc

budget_checks(d, m_usd, add, policy) ==
    IF d[1] + add[1] > policy.max_requests_per_day THEN ExcRequests
    ELSE IF d[2] + add[2] > policy.max_tokens_per_day THEN ExcTokens
    ELSE IF policy.max_usd_per_day > 0 /\ d[3] + add[3] > policy.max_usd_per_day
         THEN ExcDailySpend
    ELSE IF policy.max_usd_per_month > 0 /\ m_usd + add[3] > policy.max_usd_per_month
         THEN ExcMonthlySpend
    ELSE NoExc

----------------------------------------------------------------------------
(* Threads of execution                                                    *)

NoCall == [triple |-> <<"", <<>>, <<>>>>, tenant |-> "", delta |-> Zero3]

InitLocals ==
    [calls |-> 0,              \* calls this driver thread has made
     peers |-> 0,              \* history: most callers in flight at one of its calls
     b |-> 0,                  \* check: the bucket b refers to, by its creator (0: None)
     made |-> [state |-> "none", bucket |-> <<>>],   \* the TokenBucket this thread created
     take_now |-> 0,           \* take: now
     elapsed |-> 0,            \* take: elapsed
     value |-> 0,              \* take: the value computed, about to be stored
     line |-> [request_id |-> <<>>, ts_ms |-> 0, size |-> 0],   \* write: the event's line
     written |-> 0,            \* write: blocks of the line handed to the file so far
     call |-> NoCall,          \* arguments of the UsageStore.add in progress
     cur |-> NoRow,            \* the row add's SELECT fetched
     exc |-> NoExc,            \* the exception that ended the call, if any
     log |-> <<>>,             \* history: the check / enforce_budgets calls made
     ctx |-> NoPolicy,         \* AuthContext.key_policy of the caller
     add |-> Zero3,            \* the prospective charge <<requests, tokens, usd>>
     dk |-> <<>>,              \* dk = day_key()
     mk |-> <<>>,              \* mk = month_key()
     d |-> Zero3,              \* d_req, d_tok, d_usd read by enforce_budgets
     m_usd |-> 0,              \* m_usd read by enforce_budgets
     snap |-> [dk |-> <<>>, mk |-> <<>>, day |-> Zero3, month |-> Zero3],   \* snapshot's result
     nGet |-> 0,               \* history: UsageStore.get calls made
     nAdd |-> 0,               \* history: UsageStore.add calls made
     charges |-> <<>>,         \* history: the triples whose add has committed
     checks |-> <<>>,          \* history: admission checks made and their outcome
     entered |-> FALSE,        \* history: the route handler has started
     header |-> Absent,        \* the X-Proxy-Key header of the request
     body |-> NoBody,          \* the parsed request body and its raw size
     t0 |-> 0,                 \* t0 = time.time()
     prompt_raw |-> <<>>,
     red |-> [text |-> <<>>, counts |-> EmptyFn],
     prompt_fp |-> <<>>,
     est_in_tokens |-> 0,
     est_out_tokens |-> 0,
     est_cost |-> 0,
     upstream_model |-> "",
     status_code |-> 0,
     err |-> Absent,
     out_text |-> <<>>,
     response |-> NoResponse]  \* what the client received

InitShared ==
    /\ now = 0
    /\ settings = DefaultSettings
    /\ buckets = EmptyFn
    /\ usage = EmptyFn
    /\ files = EmptyFn
    /\ upstream = <<>>
    /\ running = 0
    /\ pc = [p \in Procs |-> "idle"]
    /\ loc = [p \in Procs |-> InitLocals]
    /\ issued = EmptyFn

\* UsageStore.add, first statement: the SELECT, run outside any transaction
\* (the sqlite3 module opens one only before an INSERT or UPDATE).
StoreAddSelect(p, from, to, call) ==
    /\ pc[p] = from
    /\ loc' = [loc EXCEPT ![p].call = call,
                          ![p].cur = SelectRow(usage, call.triple),
                          ![p].nAdd = @ + 1]
    /\ pc' = [pc EXCEPT ![p] = to]
    /\ UNCHANGED <<now, settings, policies, buckets, usage, files, upstream, running, issued>>

\* UsageStore.add, second statement and commit: INSERT or UPDATE from the
\* values the SELECT returned.  An exception leaves the call at `raised`.
StoreAddWrite(p, from, to, raised) ==
    /\ pc[p] = from
    /\ LET r == AddWrite(usage, loc[p].call, loc[p].cur) IN
        /\ usage' = r.usage
        /\ loc' = [loc EXCEPT ![p].exc = r.exc,
                              ![p].charges = IF r.exc = NoExc
                                             THEN Append(@, loc[p].call.triple) ELSE @]
        /\ pc' = [pc EXCEPT ![p] = IF r.exc = NoExc THEN to ELSE raised]
    /\ UNCHANGED <<now, settings, policies, buckets, files, upstream, running, issued>>

\* enforce_budgets, dk = day_key().
EnforceDayKey(p, from, to) ==
    /\ pc[p] = from
    /\ loc' = [loc EXCEPT ![p].dk = day_key(now)]
    /\ pc' = [pc EXCEPT ![p] = to]
    /\ UNCHANGED <<now, settings, policies, buckets, usage, files, upstream, running, issued>>

\* enforce_budgets, mk = month_key().
EnforceMonthKey(p, from, to) ==
    /\ pc[p] = from
    /\ loc' = [loc EXCEPT ![p].mk = month_key(now)]
    /\ pc' = [pc EXCEPT ![p] = to]
    /\ UNCHANGED <<now, settings, policies, buckets, usage, files, upstream, running, issued>>

\* enforce_budgets, store.get(scope="day", scope_key=dk, api_key=api_key).
EnforceGetDay(p, from, to) ==
    /\ pc[p] = from
    /\ loc' = [loc EXCEPT ![p].d = StoreGet(usage, <<"day", loc[p].dk, loc[p].ctx.key>>),
                          ![p].nGet = @ + 1]
    /\ pc' = [pc EXCEPT ![p] = to]
    /\ UNCHANGED <<now, settings, policies, buckets, usage, files, upstream, running, issued>>

\* enforce_budgets, store.get(scope="month", ...) and the four checks; the
\* exception raised, if any, is left in exc for the caller.
EnforceGetMonth(p, from, to) ==
    /\ pc[p] = from
    /\ LET m == StoreGet(usage, <<"month", loc[p].mk, loc[p].ctx.key>>) IN
        loc' = [loc EXCEPT ![p].m_usd = m[3],
                           ![p].nGet = @ + 1,
                           ![p].exc = budget_checks(loc[p].d, m[3], loc[p].add, loc[p].ctx)]
    /\ pc' = [pc EXCEPT ![p] = to]
    /\ UNCHANGED <<now, settings, policies, buckets, usage, files, upstream, running, issued>>

\* record_usage, dk = day_key().
RecordDayKey(p, from, to) ==
    /\ pc[p] = from
    /\ loc' = [loc EXCEPT ![p].dk = day_key(now)]
    /\ pc' = [pc EXCEPT ![p] = to]
    /\ UNCHANGED <<now, settings, policies, buckets, usage, files, upstream, running, issued>>

\* record_usage, mk = month_key().
RecordMonthKey(p, from, to) ==
    /\ pc[p] = from
    /\ loc' = [loc EXCEPT ![p].mk = month_key(now)]
    /\ pc' = [pc EXCEPT ![p] = to]
    /\ UNCHANGED <<now, settings, policies, buckets, usage, files, upstream, running, issued>>

\* The arguments of the two store.add calls of record_usage.
DayCall(p) == [triple |-> <<"day", loc[p].dk, loc[p].ctx.key>>,
               tenant |-> loc[p].ctx.tenant, delta |-> loc[p].add]
MonthCall(p) == [triple |-> <<"month", loc[p].mk, loc[p].ctx.key>>,
                 tenant |-> loc[p].ctx.tenant, delta |-> loc[p].add]

----------------------------------------------------------------------------
(* Concurrent callers of UsageStore.add                                    *)

LedgerTriples == {<<"day", day_key(0), KeyDemo>>, <<"month", month_key(0), KeyDemo>>}
LedgerDeltas == {<<1, 1, 0>>, <<1, 2, 1>>}

IssuedAdd(i, t, d) == IF t \in DOMAIN i THEN [i EXCEPT ![t] = Plus3(@, d)] ELSE (t :> d) @@ i

InitLedger ==
    /\ InitShared
    /\ policies = load_key_policies({KeyPolicy(KeyDemo, "demo", 30, 2, 3, 100, 0, 0)})

\* A caller invokes store.add(scope, scope_key, api_key, tenant, req, tok, usd).
LedgerCall(p) ==
    /\ pc[p] = "idle"
    /\ loc[p].calls < MaxCalls
    /\ \E t \in LedgerTriples, d \in LedgerDeltas :
        /\ loc' = [loc EXCEPT ![p].call = [triple |-> t, tenant |-> "demo", delta |-> d],
                              ![p].calls = @ + 1, ![p].exc = NoExc]
        /\ issued' = IssuedAdd(issued, t, d)
    /\ pc' = [pc EXCEPT ![p] = "add_select"]
    /\ UNCHANGED <<now, settings, policies, buckets, usage, files, upstream, running>>

LedgerSelect(p) == StoreAddSelect(p, "add_select", "add_write", loc[p].call)
LedgerWrite(p) == StoreAddWrite(p, "add_write", "idle", "add_raised")

NextLedger ==
    \E p \in Procs : LedgerCall(p) \/ LedgerSelect(p) \/ LedgerWrite(p)

SpecLedger == InitLedger /\ [][NextLedger]_vars

\* C1: when all concurrent add calls have returned, none has raised and
\* every row holds the sum of the deltas handed to add for its triple.
C1_Additive ==
    (\A p \in Procs : pc[p] \in {"idle", "add_raised"}) =>
        /\ \A p \in Procs : pc[p] = "idle"
        /\ \A t \in DOMAIN issued : StoreGet(usage, t) = issued[t]

----------------------------------------------------------------------------
(* Sequential callers of RateLimiter.check                                 *)

RateRpms == {0, 1, 2}
RateBursts == {-1, 0, 1, 2}
RateTimes == {0, 30, 60}

InitRate ==
    /\ InitShared
    /\ policies \in {load_key_policies({KeyPolicy(KeyDemo, "demo", r, b, 3, 100, 0, 0),
                                        KeyPolicy(KeyShort, "t2", 2, 1, 3, 100, 0, 0)}) :
                        r \in RateRpms, b \in RateBursts}

\* The caller invokes rate_limiter.check with the policy of one of the keys.
RateCall(p) ==
    /\ p = 1
    /\ Len(loc[p].log) < MaxChecks
    /\ \E k \in DOMAIN policies :
        LET r == check(buckets, k, policies[k].rpm, policies[k].burst, now) IN
        /\ buckets' = r.buckets
        /\ loc' = [loc EXCEPT ![p].exc = r.exc,
                              ![p].log = Append(@, [key |-> k, t |-> now, ok |-> r.exc = NoExc])]
    /\ UNCHANGED <<now, settings, policies, usage, files, upstream, running, pc, issued>>

\* The wall clock is set to another reading, later or earlier.
RateClock ==
    /\ \E t \in RateTimes \ {now} : now' = t
    /\ UNCHANGED <<settings, policies, buckets, usage, files, upstream, running, pc, loc, issued>>

NextRate == (\E p \in Procs : RateCall(p)) \/ RateClock

SpecRate == InitRate /\ [][NextRate]_vars

\* The check calls made so far for key k, in order.
ChecksOf(k) == SelectSeq(loc[1].log, LAMBDA c : c.key = k)

\* C7: for a key with burst B >= 1 and rpm R > 0, as long as every call was
\* made at the clock reading of the first one, the i-th call is admitted
\* exactly when i <= B; and a call made at least 60/R seconds after a
\* rejected call is admitted.
C7_BurstThenRefill ==
    \A k \in DOMAIN policies :
        LET B == policies[k].burst
            R == policies[k].rpm
            h == ChecksOf(k)
        IN  (B >= 1 /\ R > 0) =>
              /\ (\A i \in 1..Len(h) : h[i].t = h[1].t) =>
                    \A i \in 1..Len(h) : h[i].ok <=> i <= B
              /\ \A i \in 1..(Len(h) - 1) :
                    (~h[i].ok /\ (h[i + 1].t - h[i].t) * R >= 60) => h[i + 1].ok

\* Witness of C7 (burst = 1, rpm = 1): one admission, an immediate rejection,
\* and another admission 60 seconds later.
C7_Witness ==
    /\ policies[KeyDemo].burst = 1 /\ policies[KeyDemo].rpm = 1
    /\ Len(ChecksOf(KeyDemo)) = 3
    /\ ChecksOf(KeyDemo)[1].ok /\ ~ChecksOf(KeyDemo)[2].ok /\ ChecksOf(KeyDemo)[3].ok
    /\ ChecksOf(KeyDemo)[2].t = ChecksOf(KeyDemo)[1].t
    /\ ChecksOf(KeyDemo)[3].t - ChecksOf(KeyDemo)[2].t >= 60

\* C8: every bucket holds between 0 and capacity tokens.
C8_TokensInRange ==
    \A k \in DOMAIN buckets : 0 <= buckets[k].tokens /\ buckets[k].tokens <= buckets[k].capacity

----------------------------------------------------------------------------
(* Sequential rounds of enforce_budgets and record_usage                   *)

BudgetRequestCaps == {0, 1, 3}
BudgetTokenCaps == {3, 100}
BudgetDayUsdCaps == {0, 2}
BudgetMonthUsdCaps == {0, 3}
BudgetDeltas == {<<1, 1, 0>>, <<1, 2, 1>>, <<2, 1, 1>>}
\* 1970-01-01, 1970-01-02 and 1970-02-01, 00:00:00 UTC
BudgetTimes == {0, SecondsPerDay, 31 * SecondsPerDay}

InitBudget ==
    /\ InitShared
    /\ policies \in {load_key_policies({KeyPolicy(KeyDemo, "demo", 30, 2, mrd, mtd, mud, mum)}) :
                        mrd \in BudgetRequestCaps, mtd \in BudgetTokenCaps,
                        mud \in BudgetDayUsdCaps, mum \in BudgetMonthUsdCaps}

\* The caller invokes enforce_budgets(store, policy, api_key, add_requests,
\* add_tokens, add_usd).
BudgetCall(p) ==
    /\ p = 1
    /\ pc[p] = "idle"
    /\ Len(loc[p].log) < MaxRounds
    /\ \E a \in BudgetDeltas :
        loc' = [loc EXCEPT ![p].ctx = policies[KeyDemo], ![p].add = a, ![p].exc = NoExc]
    /\ pc' = [pc EXCEPT ![p] = "enforce_dk"]
    /\ UNCHANGED <<now, settings, policies, buckets, usage, files, upstream, running, issued>>

BudgetDayKey(p) == EnforceDayKey(p, "enforce_dk", "enforce_mk")
BudgetMonthKey(p) == EnforceMonthKey(p, "enforce_mk", "enforce_get_day")
BudgetGetDay(p) == EnforceGetDay(p, "enforce_get_day", "enforce_get_month")
BudgetGetMonth(p) == EnforceGetMonth(p, "enforce_get_month", "enforced")

\* enforce_budgets has returned or raised; after a return the caller goes on
\* to record_usage with the same charge, as the pipeline and the test do.
BudgetEnforced(p) ==
    /\ pc[p] = "enforced"
    /\ loc' = [loc EXCEPT ![p].log = Append(@,
                  [add |-> loc[p].add, d |-> loc[p].d, m_usd |-> loc[p].m_usd,
                   exc |-> loc[p].exc,
                   day_totals |-> StoreGet(usage, <<"day", loc[p].dk, loc[p].ctx.key>>),
                   month_totals |-> StoreGet(usage, <<"month", loc[p].mk, loc[p].ctx.key>>)])]
    /\ pc' = [pc EXCEPT ![p] = IF loc[p].exc = NoExc THEN "record_dk" ELSE "idle"]
    /\ UNCHANGED <<now, settings, policies, buckets, usage, files, upstream, running, issued>>

BudgetRecordDayKey(p) == RecordDayKey(p, "record_dk", "record_mk")
BudgetRecordMonthKey(p) == RecordMonthKey(p, "record_mk", "day_select")
BudgetDaySelect(p) == StoreAddSelect(p, "day_select", "day_write", DayCall(p))
BudgetDayWrite(p) == StoreAddWrite(p, "day_write", "month_select", "raised")
BudgetMonthSelect(p) == StoreAddSelect(p, "month_select", "month_write", MonthCall(p))
BudgetMonthWrite(p) == StoreAddWrite(p, "month_write", "idle", "raised")

\* The wall clock moves on to a later reading.
BudgetClock ==
    /\ \E t \in BudgetTimes : t > now /\ now' = t
    /\ UNCHANGED <<settings, policies, buckets, usage, files, upstream, running, pc, loc, issued>>

NextBudget ==
    \/ \E p \in Procs :
          \/ BudgetCall(p) \/ BudgetDayKey(p) \/ BudgetMonthKey(p)
          \/ BudgetGetDay(p) \/ BudgetGetMonth(p) \/ BudgetEnforced(p)
          \/ BudgetRecordDayKey(p) \/ BudgetRecordMonthKey(p)
          \/ BudgetDaySelect(p) \/ BudgetDayWrite(p)
          \/ BudgetMonthSelect(p) \/ BudgetMonthWrite(p)
    \/ BudgetClock

SpecBudget == InitBudget /\ [][NextBudget]_vars

\* The enforce_budgets calls made so far: the charge, the totals the call
\* read, the exception, and the ledger totals of the day and month of the call.
Rounds == loc[1].log

\* The daily request count of the first day's row.
FirstDayRequests == StoreGet(usage, <<"day", day_key(0), KeyDemo>>)[1]

\* The token and spend conditions of a call do not hold.
OtherCapsFree(e, policy) ==
    /\ e.d[2] + e.add[2] <= policy.max_tokens_per_day
    /\ ~(policy.max_usd_per_day > 0 /\ e.d[3] + e.add[3] > policy.max_usd_per_day)
    /\ ~(policy.max_usd_per_month > 0 /\ e.m_usd + e.add[3] > policy.max_usd_per_month)

\* C4: with max_requests_per_day = N, an empty ledger at the start and
\* rounds of one request each on one UTC day: each of the first N rounds is
\* accepted (unless its token or spend check rejects it), after N accepted
\* rounds round N+1 is rejected with the daily-request-cap error, and as
\* enforce_budgets never writes, the day's request count is the number of
\* accepted rounds, N after the rejected attempt.
C4_RequestCapRounds ==
    LET policy == policies[KeyDemo]
        N == policy.max_requests_per_day
        Accepted(i) == Rounds[i].exc = NoExc
    IN  (now = 0 /\ \A i \in 1..Len(Rounds) : Rounds[i].add[1] = 1) =>
          /\ \A i \in 1..Len(Rounds) :
                (i <= N /\ OtherCapsFree(Rounds[i], policy)) => Accepted(i)
          /\ \A i \in 1..Len(Rounds) :
                (i = N + 1 /\ \A j \in 1..N : Accepted(j)) =>
                    Rounds[i].exc = ExcRequests /\ FirstDayRequests = N
          /\ pc[1] \in {"idle", "enforce_dk", "enforce_mk", "enforce_get_day",
                        "enforce_get_month", "enforced"} =>
                FirstDayRequests = Cardinality({i \in 1..Len(Rounds) : Accepted(i)})

\* Witness of C4 (N = 3, as in the test policy): three accepted rounds of
\* one request, the fourth rejected, the day's count still 3.
C4_Witness ==
    /\ now = 0 /\ pc[1] = "idle"
    /\ policies[KeyDemo].max_requests_per_day = 3
    /\ Len(Rounds) = 4
    /\ \A i \in 1..4 : Rounds[i].add[1] = 1
    /\ \A i \in 1..3 : Rounds[i].exc = NoExc
    /\ Rounds[4].exc = ExcRequests
    /\ FirstDayRequests = 3

\* C6: every enforce_budgets call ends as the reference decision says on
\* the current totals of the ledger: requests if dayReq+add > maxReq; else tokens if
\* dayTok+add > maxTok; else daily spend if maxUsdDay > 0 and dayUsd+add >
\* maxUsdDay; else monthly spend if maxUsdMonth > 0 and monthUsd+add >
\* maxUsdMonth; else accepted.
C6_FirstConditionWins ==
    \A i \in 1..Len(Rounds) :
        LET e == Rounds[i]
            policy == policies[KeyDemo]
            dayReq == e.day_totals[1]
            dayTok == e.day_totals[2]
            dayUsd == e.day_totals[3]
            monthUsd == e.month_totals[3]
            c1 == dayReq + e.add[1] > policy.max_requests_per_day
            c2 == dayTok + e.add[2] > policy.max_tokens_per_day
            c3 == policy.max_usd_per_day > 0 /\ dayUsd + e.add[3] > policy.max_usd_per_day
            c4 == policy.max_usd_per_month > 0 /\ monthUsd + e.add[3] > policy.max_usd_per_month
        IN  /\ (e.exc = ExcRequests) <=> c1
            /\ (e.exc = ExcTokens) <=> (~c1 /\ c2)
            /\ (e.exc = ExcDailySpend) <=> (~c1 /\ ~c2 /\ c3)
            /\ (e.exc = ExcMonthlySpend) <=> (~c1 /\ ~c2 /\ ~c3 /\ c4)
            /\ (e.exc = NoExc) <=> (~c1 /\ ~c2 /\ ~c3 /\ ~c4)
            /\ e.d = e.day_totals /\ e.m_usd = e.month_totals[3]

\* Witness of C6: a call rejected for tokens, and a call rejected for
\* requests although its token condition held as well.
C6_Witness ==
    /\ \E i \in 1..Len(Rounds) :
          /\ Rounds[i].exc = ExcRequests
          /\ Rounds[i].d[2] + Rounds[i].add[2] > policies[KeyDemo].max_tokens_per_day
    /\ \E i \in 1..Len(Rounds) : Rounds[i].exc = ExcTokens

\* C14: a limit of 0 is no cap: no enforce_budgets call is rejected on
\* account of a limit whose value in the policy is 0.
C14_ZeroMeansNoCap ==
    \A i \in 1..Len(Rounds) :
        LET policy == policies[KeyDemo]
        IN  /\ policy.max_requests_per_day = 0 => Rounds[i].exc # ExcRequests
            /\ policy.max_tokens_per_day = 0 => Rounds[i].exc # ExcTokens
            /\ policy.max_usd_per_day = 0 => Rounds[i].exc # ExcDailySpend
            /\ policy.max_usd_per_month = 0 => Rounds[i].exc # ExcMonthlySpend

\* The month a day key lies in: "%Y-%m" of "%Y-%m-%d".
MonthOf(dk) == <<dk[1], dk[2]>>

\* The sum of the totals of the rows in the set S of triples.
RECURSIVE SumRows(_, _)
SumRows(u, S) ==
    IF S = {} THEN Zero3
    ELSE LET t == CHOOSE x \in S : TRUE
         IN  Plus3(StoreGet(u, t), SumRows(u, S \ {t}))

\* The day rows of caller `key` that lie in month mk.
DayRowsOf(u, mk, key) ==
    {t \in DOMAIN u : t[1] = "day" /\ MonthOf(t[2]) = mk /\ t[3] = key}

\* No record_usage call is in progress.
RecordIdle(p) ==
    pc[p] \notin {"record_dk", "record_mk", "day_select", "day_write",
                  "month_select", "month_write"}

\* C12: whenever no record_usage call is in progress, the totals of every
\* month row, and of the month of every day row, equal the sums over the
\* day rows of that caller and month.
C12_MonthCoversDays ==
    (\A p \in Procs : RecordIdle(p)) =>
        \A t \in DOMAIN usage :
            LET mk == IF t[1] = "month" THEN t[2] ELSE MonthOf(t[2])
            IN  StoreGet(usage, <<"month", mk, t[3]>>)
                    = SumRows(usage, DayRowsOf(usage, mk, t[3]))

----------------------------------------------------------------------------
(* Concurrent callers of enforce_budgets and record_usage (several workers *)
(* or threads on one usage database), every request charging one request.  *)

CallersRequestCaps == {0, 1, 2}
\* 1970-01-01 and 1970-01-02, 00:00:00 UTC
CallersTimes == {0, SecondsPerDay}

InitCallers ==
    /\ InitShared
    /\ policies \in {load_key_policies({KeyPolicy(KeyDemo, "demo", 30, 2, mrd, 100, 0, 0)}) :
                        mrd \in CallersRequestCaps}

\* Caller q is in flight: between the start of its enforce_budgets call and
\* the commit of the day add of its record_usage call (or its rejection).
InFlight(q) ==
    pc[q] \in {"enforce_dk", "enforce_mk", "enforce_get_day", "enforce_get_month",
               "enforced", "record_dk", "record_mk", "day_select", "day_write"}

\* The number of requests the callers in S have made.
RECURSIVE CallsMade(_)
CallsMade(S) ==
    IF S = {} THEN 0
    ELSE LET p == CHOOSE x \in S : TRUE IN loc[p].calls + CallsMade(S \ {p})

\* A request of the caller reaches enforce_budgets(..., add_requests=1,
\* add_tokens=1, add_usd=0).
CallersCall(p) ==
    /\ pc[p] = "idle"
    /\ CallsMade(Procs) < MaxCalls
    /\ loc' = [loc EXCEPT ![p].ctx = policies[KeyDemo], ![p].add = <<1, 1, 0>>,
                          ![p].exc = NoExc, ![p].calls = @ + 1,
                          ![p].peers = Max(@, 1 + Cardinality({q \in Procs : InFlight(q)}))]
    /\ pc' = [pc EXCEPT ![p] = "enforce_dk"]
    /\ UNCHANGED <<now, settings, policies, buckets, usage, files, upstream, running, issued>>

CallersDayKey(p) == EnforceDayKey(p, "enforce_dk", "enforce_mk")
CallersMonthKey(p) == EnforceMonthKey(p, "enforce_mk", "enforce_get_day")
CallersGetDay(p) == EnforceGetDay(p, "enforce_get_day", "enforce_get_month")
CallersGetMonth(p) == EnforceGetMonth(p, "enforce_get_month", "enforced")

\* enforce_budgets has returned (record_usage follows) or raised.
CallersEnforced(p) ==
    /\ pc[p] = "enforced"
    /\ pc' = [pc EXCEPT ![p] = IF loc[p].exc = NoExc THEN "record_dk" ELSE "idle"]
    /\ UNCHANGED <<now, settings, policies, buckets, usage, files, upstream, running, loc, issued>>

CallersRecordDayKey(p) == RecordDayKey(p, "record_dk", "record_mk")
CallersRecordMonthKey(p) == RecordMonthKey(p, "record_mk", "day_select")
CallersDaySelect(p) == StoreAddSelect(p, "day_select", "day_write", DayCall(p))
CallersDayWrite(p) == StoreAddWrite(p, "day_write", "month_select", "idle")
CallersMonthSelect(p) == StoreAddSelect(p, "month_select", "month_write", MonthCall(p))
CallersMonthWrite(p) == StoreAddWrite(p, "month_write", "idle", "idle")

\* The wall clock moves on to a later reading.
CallersClock ==
    /\ \E t \in CallersTimes : t > now /\ now' = t
    /\ UNCHANGED <<settings, policies, buckets, usage, files, upstream, running, pc, loc, issued>>

NextCallers ==
    \/ \E p \in Procs :
          \/ CallersCall(p) \/ CallersDayKey(p) \/ CallersMonthKey(p)
          \/ CallersGetDay(p) \/ CallersGetMonth(p) \/ CallersEnforced(p)
          \/ CallersRecordDayKey(p) \/ CallersRecordMonthKey(p)
          \/ CallersDaySelect(p) \/ CallersDayWrite(p)
          \/ CallersMonthSelect(p) \/ CallersMonthWrite(p)
    \/ CallersClock

SpecCallers == InitCallers /\ [][NextCallers]_vars

\* The most callers that were in flight at one time so far.
RECURSIVE MaxPeers(_)
MaxPeers(S) ==
    IF S = {} THEN 0
    ELSE LET p == CHOOSE x \in S : TRUE IN Max(loc[p].peers, MaxPeers(S \ {p}))

\* C13: with at most k callers in flight at one time, every day row's
\* request total is at most max_requests_per_day + k; and with one caller
\* at a time it is at most max_requests_per_day.
C13_BoundedOvershoot ==
    LET N == policies[KeyDemo].max_requests_per_day
        k == MaxPeers(Procs)
    IN  \A t \in DOMAIN usage :
            t[1] = "day" =>
                /\ usage[t].requests <= N + k
                /\ k <= 1 => usage[t].requests <= N

\* Witness of C13: two callers were in flight together and the day's total
\* has passed the cap of 1.
C13_Witness ==
    /\ policies[KeyDemo].max_requests_per_day = 1
    /\ MaxPeers(Procs) = 2
    /\ \E t \in DOMAIN usage : t[1] = "day" /\ usage[t].requests = 2

----------------------------------------------------------------------------
(* The request pipeline (main.py chat_completions)                         *)

PrefixLen == 6      \* api_key_prefix = key[:6]
DefaultMaxTokens == 256

\* s[:n]
Take(s, n) == SubSeq(s, 1, Min(n, Len(s)))

BodyHello == [nbytes |-> 64, model |-> Absent,
              messages |-> <<[role |-> "user", content |-> <<WordHello>>]>>,
              max_tokens |-> NoInt]
BodySecret == [nbytes |-> 96, model |-> Absent,
               messages |-> <<[role |-> "user", content |-> <<WordHello, WordOpenAIKey>>]>>,
               max_tokens |-> Int_(1)]
BodyBig == [BodyHello EXCEPT !.nbytes = 262145]
\* max_tokens: int | None has no lower bound in the schema.
BodyNegative == [BodyHello EXCEPT !.max_tokens = Int_(-300)]

PipelineInputs ==
    {[header |-> Absent, body |-> BodyHello],
     [header |-> Str(<<>>), body |-> BodyHello],
     [header |-> Str(KeyWrong), body |-> BodyHello],
     [header |-> Str(KeyDemo), body |-> BodyHello],
     [header |-> Str(KeyDemo), body |-> BodySecret],
     [header |-> Str(KeyDemo), body |-> BodyBig],
     [header |-> Str(KeyShort), body |-> BodyHello],
     [header |-> Str(KeyShort), body |-> BodyNegative]}

PipelinePolicies ==
    load_key_policies({KeyPolicy(KeyDemo, "demo", 1, 1, 2, 300, 0, 0),
                       KeyPolicy(KeyShort, "t2", 0, 0, 1, 100000, 0, 0)})

PipelineSettings ==
    {DefaultSettings,
     [DefaultSettings EXCEPT !.openai_api_key = Absent],
     [DefaultSettings EXCEPT !.store_raw_in_audit = TRUE]}

\* 1970-01-01 and 1970-01-02, 00:00:00 UTC
PipelineTimes == {0, SecondsPerDay}

Init ==
    /\ now = 0
    /\ settings \in PipelineSettings
    /\ policies = PipelinePolicies
    /\ buckets = EmptyFn
    /\ usage = EmptyFn
    /\ files = EmptyFn
    /\ upstream = <<>>
    /\ running = 0
    /\ pc = [p \in Procs |-> "idle"]
    /\ loc = [p \in Procs |-> InitLocals]
    /\ issued = EmptyFn

\* An exception leaves the request: the client receives its status code.
Raised(p, exc, more) ==
    [loc EXCEPT ![p] = [more EXCEPT !.exc = exc,
                                    !.response = [status |-> exc.status, request_id |-> 0]]]

\* A POST /v1/chat.completions arrives; requests are numbered as they arrive.
Arrive(p) ==
    /\ pc[p] = "idle"
    /\ \A q \in Procs : q < p => pc[q] # "idle"
    /\ \E in \in PipelineInputs :
        loc' = [loc EXCEPT ![p].header = in.header, ![p].body = in.body]
    /\ pc' = [pc EXCEPT ![p] = "auth"]
    /\ UNCHANGED <<now, settings, policies, buckets, usage, files, upstream, running, issued>>

\* The dependency get_auth_context runs require_proxy_key before the handler.
Authenticate(p) ==
    /\ pc[p] = "auth"
    /\ LET r == require_proxy_key(policies, loc[p].header) IN
        IF r.exc # NoExc
        THEN /\ loc' = Raised(p, r.exc, loc[p])
             /\ pc' = [pc EXCEPT ![p] = "done"]
        ELSE /\ loc' = [loc EXCEPT ![p].ctx = r.key_policy]
             /\ pc' = [pc EXCEPT ![p] = "handler"]
    /\ UNCHANGED <<now, settings, policies, buckets, usage, files, upstream, running, issued>>

\* The handler starts: t0, request_id, then it awaits the request body.
HandlerEnter(p) ==
    /\ pc[p] = "handler"
    /\ running = 0
    /\ loc' = [loc EXCEPT ![p].t0 = now, ![p].entered = TRUE]
    /\ pc' = [pc EXCEPT ![p] = "await_body"]
    /\ UNCHANGED <<now, settings, policies, buckets, usage, files, upstream, running, issued>>

\* The event loop resumes the handler, which runs without awaiting until it
\* returns or raises; first the size check.
HandlerResume(p) ==
    /\ pc[p] = "await_body"
    /\ running = 0
    /\ IF loc[p].body.nbytes > settings.max_request_bytes
       THEN /\ loc' = Raised(p, HTTPException(413, "Request too large"), loc[p])
            /\ pc' = [pc EXCEPT ![p] = "done"]
            /\ UNCHANGED running
       ELSE /\ pc' = [pc EXCEPT ![p] = "rate_check"]
            /\ running' = p
            /\ UNCHANGED loc
    /\ UNCHANGED <<now, settings, policies, buckets, usage, files, upstream, issued>>

\* rate_limiter.check(key, rpm, burst)
RateCheck(p) ==
    /\ pc[p] = "rate_check"
    /\ LET r == check(buckets, loc[p].ctx.key, loc[p].ctx.rpm, loc[p].ctx.burst, now)
           seen == [loc[p] EXCEPT !.checks = Append(@, [name |-> "rate", exc |-> r.exc])]
       IN
        /\ buckets' = r.buckets
        /\ IF r.exc # NoExc
           THEN /\ loc' = Raised(p, r.exc, seen)
                /\ pc' = [pc EXCEPT ![p] = "done"]
                /\ running' = 0
           ELSE /\ loc' = [loc EXCEPT ![p] = seen]
                /\ pc' = [pc EXCEPT ![p] = "redact"]
                /\ UNCHANGED running
    /\ UNCHANGED <<now, settings, policies, usage, files, upstream, issued>>

\* build_prompt, redact_text, prompt_fingerprint and the estimates.
Redact(p) ==
    /\ pc[p] = "redact"
    /\ LET prompt_raw == build_prompt(loc[p].body.messages)
           red == redact_text(prompt_raw, settings.redact_emails_phones)
           est_in == estimate_tokens(red.text)
           est_out == IntOr(loc[p].body.max_tokens, DefaultMaxTokens)
           est_cost == estimate_cost_usd(settings, est_in, est_out)
       IN  loc' = [loc EXCEPT ![p].prompt_raw = prompt_raw,
                              ![p].red = red,
                              ![p].prompt_fp = prompt_fingerprint(red.text),
                              ![p].est_in_tokens = est_in,
                              ![p].est_out_tokens = est_out,
                              ![p].est_cost = est_cost,
                              ![p].add = <<1, est_in + est_out, est_cost>>]
    /\ pc' = [pc EXCEPT ![p] = "enforce_dk"]
    /\ UNCHANGED <<now, settings, policies, buckets, usage, files, upstream, running, issued>>

PipelineEnforceDayKey(p) == EnforceDayKey(p, "enforce_dk", "enforce_mk")
PipelineEnforceMonthKey(p) == EnforceMonthKey(p, "enforce_mk", "enforce_get_day")
PipelineEnforceGetDay(p) == EnforceGetDay(p, "enforce_get_day", "enforce_get_month")
PipelineEnforceGetMonth(p) == EnforceGetMonth(p, "enforce_get_month", "enforced")

\* What follows enforce_budgets: its exception leaves the handler; then the
\* handler raises 500 when no upstream key is configured; else it goes on.
after_enforce_ignoring(exc, cfg) ==
    IF ~Truthy(cfg.openai_api_key)
    THEN [pc |-> "done", exc |-> HTTPException(500, "Upstream OPENAI_API_KEY not configured")]
    ELSE [pc |-> "generate", exc |-> NoExc]

after_enforce(exc, cfg) ==
    IF exc # NoExc
    THEN [pc |-> "done", exc |-> exc]
    ELSE IF ~Truthy(cfg.openai_api_key)
    THEN [pc |-> "done", exc |-> HTTPException(500, "Upstream OPENAI_API_KEY not configured")]
    ELSE [pc |-> "generate", exc |-> NoExc]

AfterEnforce(p) ==
    /\ pc[p] = "enforced"
    /\ LET r == after_enforce(loc[p].exc, settings)
           seen == [loc[p] EXCEPT !.checks = Append(@, [name |-> "budget", exc |-> loc[p].exc])]
       IN
        /\ pc' = [pc EXCEPT ![p] = r.pc]
        /\ IF r.pc = "done"
           THEN /\ loc' = Raised(p, r.exc, seen)
                /\ running' = 0
           ELSE /\ loc' = [loc EXCEPT ![p] =
                              [seen EXCEPT !.upstream_model =
                                  IF Truthy(loc[p].body.model) THEN "body.model"
                                  ELSE "upstream_model_default"]]
                /\ UNCHANGED running
    /\ UNCHANGED <<now, settings, policies, buckets, usage, files, upstream, issued>>

\* The try / except around upstream.generate: what the handler holds after
\* the call returned ("ok") or raised ("error").
try_generate_swallowing(outcome) ==
    IF outcome = "ok"
    THEN [status_code |-> 200, err |-> Absent, out_text |-> <<Lit("pong")>>]
    ELSE [status_code |-> 200, err |-> Absent, out_text |-> <<>>]

try_generate(outcome) ==
    IF outcome = "ok"
    THEN [status_code |-> 200, err |-> Absent, out_text |-> <<Lit("pong")>>]
    ELSE [status_code |-> 502, err |-> Str(<<"upstream_error">>), out_text |-> <<>>]

\* upstream.generate(model, prompt=prompt_redacted, ...): the collaborator
\* receives the call and answers or fails.
Generate_raw_prompt(p) ==
    /\ pc[p] = "generate"
    /\ upstream' = Append(upstream, [request |-> p, model |-> loc[p].upstream_model,
                                      prompt |-> IF settings.store_raw_in_audit
                                                 THEN loc[p].prompt_raw ELSE loc[p].red.text])
    /\ \E outcome \in {"ok", "error"} :
        LET r == try_generate(outcome) IN
        loc' = [loc EXCEPT ![p].status_code = r.status_code,
                           ![p].err = r.err,
                           ![p].out_text = r.out_text,
                           ![p].checks = Append(@, [name |-> "upstream", exc |->
                                IF outcome = "ok" THEN NoExc
                                ELSE HTTPException(0, "upstream raised")])]
    /\ pc' = [pc EXCEPT ![p] = "record_dk"]
    /\ UNCHANGED <<now, settings, policies, buckets, usage, files, running, issued>>

Generate(p) ==
    /\ pc[p] = "generate"
    /\ upstream' = Append(upstream, [request |-> p, model |-> loc[p].upstream_model,
                                      prompt |-> loc[p].red.text])
    /\ \E outcome \in {"ok", "error"} :
        LET r == try_generate(outcome) IN
        loc' = [loc EXCEPT ![p].status_code = r.status_code,
                           ![p].err = r.err,
                           ![p].out_text = r.out_text,
                           ![p].checks = Append(@, [name |-> "upstream", exc |->
                                IF outcome = "ok" THEN NoExc
                                ELSE HTTPException(0, "upstream raised")])]
    /\ pc' = [pc EXCEPT ![p] = "record_dk"]
    /\ UNCHANGED <<now, settings, policies, buckets, usage, files, running, issued>>

\* record_usage.  The handler is the only writer of the table while it runs
\* (one event loop, no await after the body), so its INSERTs cannot collide;
\* an sqlite3 error would leave the handler without an audit event.
PipelineRecordDayKey(p) == RecordDayKey(p, "record_dk", "record_mk")
PipelineRecordMonthKey(p) == RecordMonthKey(p, "record_mk", "day_select")
PipelineDaySelect(p) == StoreAddSelect(p, "day_select", "day_write", DayCall(p))
PipelineDayWrite(p) == StoreAddWrite(p, "day_write", "month_select", "done")
PipelineMonthSelect(p) == StoreAddSelect(p, "month_select", "month_write", MonthCall(p))
PipelineMonthWrite(p) == StoreAddWrite(p, "month_write", "audit", "done")

\* AuditLogger._path_for_event: the partition is the UTC day of ts_ms.
path_for_event(ts_ms) == day_key(ts_ms \div 1000)

\* AuditLogger.write: one line appended to the partition of the event.
write_truncating(fs, ev) ==
    LET out_path == path_for_event(ev.ts_ms)
    IN  (out_path :> <<ev>>) @@ fs

write(fs, ev) ==
    LET out_path == path_for_event(ev.ts_ms)
    IN  (out_path :> Append(IF out_path \in DOMAIN fs THEN fs[out_path] ELSE <<>>, ev)) @@ fs

NoSnapshot == [some |-> FALSE, model |-> "", prompt |-> <<>>]
Snapshot(model, prompt) == [some |-> TRUE, model |-> model, prompt |-> prompt]

\* latency_ms and audit.write(AuditEvent(...)).
AuditWrite(p) ==
    /\ pc[p] = "audit"
    /\ files' = write(files,
          [request_id |-> p,
           ts_ms |-> now * 1000,
           tenant |-> loc[p].ctx.tenant,
           api_key_prefix |-> Take(loc[p].ctx.key, PrefixLen),
           path |-> "/v1/chat.completions",
           status_code |-> loc[p].status_code,
           latency_ms |-> (now - loc[p].t0) * 1000,
           redactions |-> loc[p].red.counts,
           estimated_input_tokens |-> loc[p].est_in_tokens,
           estimated_output_tokens |-> loc[p].est_out_tokens,
           estimated_cost_usd |-> loc[p].est_cost,
           prompt_fingerprint_sha256 |-> loc[p].prompt_fp,
           request_redacted |-> IF ~settings.store_raw_in_audit
                                THEN Snapshot(loc[p].upstream_model, loc[p].red.text)
                                ELSE NoSnapshot,
           request_raw |-> IF settings.store_raw_in_audit
                           THEN Snapshot(loc[p].upstream_model, loc[p].prompt_raw)
                           ELSE NoSnapshot,
           error |-> loc[p].err])
    /\ pc' = [pc EXCEPT ![p] = "respond"]
    /\ UNCHANGED <<now, settings, policies, buckets, usage, upstream, running, loc, issued>>

\* The handler returns: a JSONResponse with the failure status, or the
\* ChatCompletionsResponse.
Respond(p) ==
    /\ pc[p] = "respond"
    /\ loc' = [loc EXCEPT ![p].response = [status |-> loc[p].status_code, request_id |-> p]]
    /\ pc' = [pc EXCEPT ![p] = "done"]
    /\ running' = 0
    /\ UNCHANGED <<now, settings, policies, buckets, usage, files, upstream, issued>>

\* The wall clock moves on to a later reading.
Clock ==
    /\ \E t \in PipelineTimes : t > now /\ now' = t
    /\ UNCHANGED <<settings, policies, buckets, usage, files, upstream, running, pc, loc, issued>>

Next ==
    \/ \E p \in Procs :
          \/ Arrive(p) \/ Authenticate(p) \/ HandlerEnter(p) \/ HandlerResume(p)
          \/ RateCheck(p) \/ Redact(p)
          \/ PipelineEnforceDayKey(p) \/ PipelineEnforceMonthKey(p)
          \/ PipelineEnforceGetDay(p) \/ PipelineEnforceGetMonth(p)
          \/ AfterEnforce(p) \/ Generate(p)
          \/ PipelineRecordDayKey(p) \/ PipelineRecordMonthKey(p)
          \/ PipelineDaySelect(p) \/ PipelineDayWrite(p)
          \/ PipelineMonthSelect(p) \/ PipelineMonthWrite(p)
          \/ AuditWrite(p) \/ Respond(p)
    \/ Clock

Spec == Init /\ [][Next]_vars

\* The audit lines written for request p, as <<partition, line number>>.
AuditLines(p) ==
    UNION {{<<d, i>> : i \in {j \in 1..Len(files[d]) : files[d][j].request_id = p}} :
             d \in DOMAIN files}

\* The upstream collaborator has received a call of request p.
Called(p) == \E i \in 1..Len(upstream) : upstream[i].request = p

\* Request p made the named admission check with the given verdict.
Checked(p, name, passed) ==
    \E i \in 1..Len(loc[p].checks) :
        loc[p].checks[i].name = name /\ ((loc[p].checks[i].exc = NoExc) <=> passed)

\* The sum of the charges whose add to triple t has committed.
RECURSIVE SumCharges(_, _)
SumCharges(S, t) ==
    IF S = {} THEN Zero3
    ELSE LET p == CHOOSE x \in S : TRUE
         IN  Plus3(IF \E i \in 1..Len(loc[p].charges) : loc[p].charges[i] = t
                   THEN loc[p].add ELSE Zero3,
                   SumCharges(S \ {p}, t))

\* C2: every request that reached the handler and has ended, admitted or
\* rejected, has exactly one audit event.
C2_ExactlyOneAudit ==
    \A p \in Procs :
        (loc[p].entered /\ pc[p] = "done") => Cardinality(AuditLines(p)) = 1

\* C3: a request rejected by the rate limiter or by the budget enforcer has
\* no upstream call and no ledger add; upstream calls and ledger adds belong
\* to requests that passed both checks.
C3_RejectedNeverCharged ==
    \A p \in Procs :
        /\ (Checked(p, "rate", FALSE) \/ Checked(p, "budget", FALSE)) =>
              ~Called(p) /\ loc[p].nAdd = 0 /\ loc[p].charges = <<>>
        /\ (Called(p) \/ loc[p].nAdd > 0 \/ loc[p].charges # <<>>) =>
              Checked(p, "rate", TRUE) /\ Checked(p, "budget", TRUE)

\* Witness of C3: a request rejected by the budget enforcer has ended, and
\* another request was sent upstream and charged.
C3_Witness ==
    \E p, q \in Procs :
        /\ pc[p] = "done" /\ Checked(p, "budget", FALSE) /\ loc[p].response.status = 429
        /\ Called(q) /\ Len(loc[q].charges) = 2

\* C5: when upstream.generate raised for a request that has ended, no
\* exception left the handler, the client received 502, the day and the
\* month row were charged the estimated usage, and exactly one audit event
\* was written, with status code 502 and a non-empty error.
C5_UpstreamFailureCharged ==
    \A p \in Procs :
        (pc[p] = "done" /\ Checked(p, "upstream", FALSE)) =>
            /\ loc[p].exc = NoExc
            /\ loc[p].response = [status |-> 502, request_id |-> p]
            /\ Len(loc[p].charges) = 2
            /\ loc[p].charges[1][1] = "day" /\ loc[p].charges[2][1] = "month"
            /\ \A i \in 1..2 :
                  /\ loc[p].charges[i][3] = loc[p].header.val
                  /\ StoreGet(usage, loc[p].charges[i]) = SumCharges(Procs, loc[p].charges[i])
            /\ loc[p].add = <<1, loc[p].est_in_tokens + loc[p].est_out_tokens, loc[p].est_cost>>
            /\ Cardinality(AuditLines(p)) = 1
            /\ \A l \in AuditLines(p) :
                  files[l[1]][l[2]].status_code = 502 /\ Truthy(files[l[1]][l[2]].error)

\* Witness of C5: a request whose upstream call raised has ended with 502.
C5_Witness ==
    \E p \in Procs :
        /\ pc[p] = "done" /\ Checked(p, "upstream", FALSE)
        /\ loc[p].response.status = 502
        /\ StoreGet(usage, <<"day", loc[p].dk, loc[p].ctx.key>>)[1] >= 1

\* Request p ended without touching the limiter, the ledger or the upstream.
Untouched(p) ==
    /\ pc[p] = "done" /\ ~loc[p].entered
    /\ loc[p].checks = <<>> /\ loc[p].nGet = 0 /\ loc[p].nAdd = 0
    /\ ~Called(p)

\* C9: once authentication has run, a request with an absent or empty
\* X-Proxy-Key has been answered 401 and one with a key outside the policy
\* set 403; such a request made no rate-limit check, no ledger read or
\* write and no upstream call, and no bucket or row exists for its key.
C9_AuthFirst ==
    \A p \in Procs :
        pc[p] \notin {"idle", "auth"} =>
            /\ ~Truthy(loc[p].header) =>
                  loc[p].response.status = 401 /\ Untouched(p)
            /\ (Truthy(loc[p].header) /\ loc[p].header.val \notin DOMAIN policies) =>
                  /\ loc[p].response.status = 403 /\ Untouched(p)
                  /\ loc[p].header.val \notin DOMAIN buckets
                  /\ \A t \in DOMAIN usage : t[3] # loc[p].header.val

\* Witness of C9: one request answered 401 for an empty key and one
\* answered 403 for an unknown key.
C9_Witness ==
    \E p, q \in Procs :
        /\ pc[p] = "done" /\ loc[p].header = Str(<<>>) /\ loc[p].response.status = 401
        /\ pc[q] = "done" /\ loc[q].header = Str(KeyWrong) /\ loc[q].response.status = 403

\* C10: the api_key_prefix of every audit event is a proper prefix of the
\* caller's key, strictly shorter than the key.
C10_PrefixProper ==
    \A d \in DOMAIN files : \A i \in 1..Len(files[d]) :
        LET ev == files[d][i]
            key == loc[ev.request_id].ctx.key
        IN  /\ Len(ev.api_key_prefix) < Len(key)
            /\ ev.api_key_prefix = SubSeq(key, 1, Len(ev.api_key_prefix))

\* C11: in every step of the pipeline every usage row stays in the table
\* and its requests, tokens and usd are at least what they were before.
C11_TotalsNeverDecrease ==
    [][\A t \in DOMAIN usage :
          /\ t \in DOMAIN usage'
          /\ usage'[t].requests >= usage[t].requests
          /\ usage'[t].tokens >= usage[t].tokens
          /\ usage'[t].usd >= usage[t].usd]_vars

----------------------------------------------------------------------------
(* Sequential callers of AuditLogger.write                                 *)

MsPerDay == SecondsPerDay * 1000
\* 1970-01-01T00:00:00.000Z, 1970-01-01T23:59:59.999Z, 1970-01-02T00:00:00.000Z
\* and 1970-01-03T00:00:00.000Z
AuditTimes == {0, MsPerDay - 1, MsPerDay, 2 * MsPerDay}
AuditDays == 0..2

InitAudit == InitShared /\ policies = EmptyFn

\* The caller invokes audit.write(ev) with an event of any of the timestamps.
AuditCall(p) ==
    /\ p = 1
    /\ Len(loc[p].log) < MaxRounds
    /\ \E t \in AuditTimes :
        LET ev == [request_id |-> Len(loc[p].log) + 1, ts_ms |-> t]
        IN  /\ files' = write(files, ev)
            /\ loc' = [loc EXCEPT ![p].log = Append(@, ev)]
    /\ UNCHANGED <<now, settings, policies, buckets, usage, upstream, running, pc, issued>>

NextAudit == \E p \in Procs : AuditCall(p)

SpecAudit == InitAudit /\ [][NextAudit]_vars

\* The lines of the partition named for day d (none when the file is absent).
Partition(d) == IF d \in DOMAIN files THEN files[d] ELSE <<>>

\* The events written so far whose ts_ms falls on UTC day number n.
WrittenOn(n) ==
    SelectSeq(loc[1].log, LAMBDA ev : n * MsPerDay <= ev.ts_ms /\ ev.ts_ms < (n + 1) * MsPerDay)

\* C15: the partition of every UTC day holds exactly the events written so
\* far whose ts_ms falls on that day, one line each, in the order they were
\* written; and a write keeps every partition and leaves the lines already
\* in it as they were.
C15_PartitionByTimestamp ==
    /\ [](/\ \A n \in AuditDays : Partition(CivilDate(n)) = WrittenOn(n)
          /\ DOMAIN files \subseteq {CivilDate(n) : n \in AuditDays})
    /\ [][\A d \in DOMAIN files :
              /\ d \in DOMAIN files'
              /\ Len(files'[d]) >= Len(files[d])
              /\ SubSeq(files'[d], 1, Len(files[d])) = files[d]]_vars

\* Witness of C15: two partitions, the first holding two events that were
\* written later-timestamp first, after the event of the second day.
C15_Witness ==
    /\ Len(Partition(CivilDate(0))) = 2
    /\ Partition(CivilDate(0))[1].ts_ms > Partition(CivilDate(0))[2].ts_ms
    /\ Len(Partition(CivilDate(1))) = 1
    /\ Partition(CivilDate(1))[1].request_id = 1

----------------------------------------------------------------------------
(* Threads calling RateLimiter.check on one key, statement by statement    *)
(*                                                                         *)
(* A TokenBucket is an object shared by reference.  The object stored in   *)
(* _buckets[key] is buckets[key]; an object that a later store replaced in *)
(* the dict is kept with the thread that created it (made.bucket) for the  *)
(* threads that still hold a reference to it.                              *)

ThreadsRpms == {0, 1}
ThreadsBursts == {1, 2}
ThreadsTimes == {0, 60}

InitThreads ==
    /\ InitShared
    /\ policies \in {load_key_policies({KeyPolicy(KeyDemo, "demo", r, bu, 3, 100, 0, 0)}) :
                        r \in ThreadsRpms, bu \in ThreadsBursts}

\* The TokenBucket created by thread c.
Deref(c) == IF loc[c].made.state = "live" THEN buckets[KeyDemo] ELSE loc[c].made.bucket

\* An attribute store on the TokenBucket created by c, together with the
\* new locals l of the threads.
StoreAttr(c, bucket, l) ==
    IF loc[c].made.state = "live"
    THEN /\ buckets' = [buckets EXCEPT ![KeyDemo] = bucket]
         /\ loc' = l
    ELSE /\ loc' = [l EXCEPT ![c].made = [@ EXCEPT !.bucket = bucket]]
         /\ UNCHANGED buckets

\* check(key, rpm, burst): if rpm <= 0: return.
ThreadsCall(p) ==
    /\ pc[p] = "idle"
    /\ CallsMade(Procs) < MaxCalls
    /\ loc' = [loc EXCEPT ![p].calls = @ + 1, ![p].exc = NoExc,
                          ![p].ctx = policies[KeyDemo]]
    /\ pc' = [pc EXCEPT ![p] = IF policies[KeyDemo].rpm <= 0 THEN "idle" ELSE "check_get"]
    /\ UNCHANGED <<now, settings, policies, buckets, usage, files, upstream, running, issued>>

\* b = self._buckets.get(key)
ThreadsGet(p) ==
    /\ pc[p] = "check_get"
    /\ LET found == {c \in Procs : loc[c].made.state = "live"} IN
        IF found = {}
        THEN /\ loc' = [loc EXCEPT ![p].b = 0]
             /\ pc' = [pc EXCEPT ![p] = "check_new"]
        ELSE /\ loc' = [loc EXCEPT ![p].b = CHOOSE c \in found : TRUE]
             /\ pc' = [pc EXCEPT ![p] = "take_now"]
    /\ UNCHANGED <<now, settings, policies, buckets, usage, files, upstream, running, issued>>

\* if not b: b = TokenBucket(...); self._buckets[key] = b
ThreadsNew(p) ==
    /\ pc[p] = "check_new"
    /\ buckets' = (KeyDemo :> NewBucket(loc[p].ctx.rpm, loc[p].ctx.burst, now)) @@ buckets
    /\ loc' = [q \in Procs |->
                 IF q = p
                 THEN [loc[q] EXCEPT !.b = p, !.made = [state |-> "live", bucket |-> <<>>]]
                 ELSE IF loc[q].made.state = "live"
                 THEN [loc[q] EXCEPT !.made = [state |-> "orphan", bucket |-> buckets[KeyDemo]]]
                 ELSE loc[q]]
    /\ pc' = [pc EXCEPT ![p] = "take_now"]
    /\ UNCHANGED <<now, settings, policies, usage, files, upstream, running, issued>>

\* take: now = time.time()
ThreadsTakeNow(p) ==
    /\ pc[p] = "take_now"
    /\ loc' = [loc EXCEPT ![p].take_now = now]
    /\ pc' = [pc EXCEPT ![p] = "take_elapsed"]
    /\ UNCHANGED <<now, settings, policies, buckets, usage, files, upstream, running, issued>>

\* take: elapsed = max(0.0, now - self.last_ts)
ThreadsTakeElapsed(p) ==
    /\ pc[p] = "take_elapsed"
    /\ loc' = [loc EXCEPT ![p].elapsed = Max(0, loc[p].take_now - Deref(loc[p].b).last_ts)]
    /\ pc' = [pc EXCEPT ![p] = "take_stamp"]
    /\ UNCHANGED <<now, settings, policies, buckets, usage, files, upstream, running, issued>>

\* take: self.last_ts = now
ThreadsTakeStamp(p) ==
    /\ pc[p] = "take_stamp"
    /\ StoreAttr(loc[p].b, [Deref(loc[p].b) EXCEPT !.last_ts = loc[p].take_now], loc)
    /\ pc' = [pc EXCEPT ![p] = "take_refill"]
    /\ UNCHANGED <<now, settings, policies, usage, files, upstream, running, issued>>

\* take: min(self.capacity, self.tokens + elapsed * self.refill_per_sec)
ThreadsTakeRefill(p) ==
    /\ pc[p] = "take_refill"
    /\ LET bucket == Deref(loc[p].b) IN
        loc' = [loc EXCEPT ![p].value =
                   Min(bucket.capacity, bucket.tokens + loc[p].elapsed * bucket.refill_per_sec)]
    /\ pc' = [pc EXCEPT ![p] = "take_refill_store"]
    /\ UNCHANGED <<now, settings, policies, buckets, usage, files, upstream, running, issued>>

\* take: self.tokens = <the minimum computed>
ThreadsTakeRefillStore(p) ==
    /\ pc[p] = "take_refill_store"
    /\ StoreAttr(loc[p].b, [Deref(loc[p].b) EXCEPT !.tokens = loc[p].value], loc)
    /\ pc' = [pc EXCEPT ![p] = "take_compare"]
    /\ UNCHANGED <<now, settings, policies, usage, files, upstream, running, issued>>

\* take: if self.tokens >= amount ... else return False, and check raises.
ThreadsTakeCompare(p) ==
    /\ pc[p] = "take_compare"
    /\ IF Deref(loc[p].b).tokens >= 1 * TokUnit
       THEN /\ pc' = [pc EXCEPT ![p] = "take_deduct"]
            /\ UNCHANGED loc
       ELSE /\ pc' = [pc EXCEPT ![p] = "idle"]
            /\ loc' = [loc EXCEPT ![p].exc = HTTPException(429, "Rate limit exceeded")]
    /\ UNCHANGED <<now, settings, policies, buckets, usage, files, upstream, running, issued>>

\* take: self.tokens - amount, the right-hand side of self.tokens -= amount
ThreadsTakeDeduct(p) ==
    /\ pc[p] = "take_deduct"
    /\ loc' = [loc EXCEPT ![p].value = Deref(loc[p].b).tokens - 1 * TokUnit]
    /\ pc' = [pc EXCEPT ![p] = "take_deduct_store"]
    /\ UNCHANGED <<now, settings, policies, buckets, usage, files, upstream, running, issued>>

\* take: the store of self.tokens -= amount; return True
ThreadsTakeDeductStore(p) ==
    /\ pc[p] = "take_deduct_store"
    /\ StoreAttr(loc[p].b, [Deref(loc[p].b) EXCEPT !.tokens = loc[p].value], loc)
    /\ pc' = [pc EXCEPT ![p] = "idle"]
    /\ UNCHANGED <<now, settings, policies, usage, files, upstream, running, issued>>

\* The wall clock moves on to a later reading.
ThreadsClock ==
    /\ \E t \in ThreadsTimes : t > now /\ now' = t
    /\ UNCHANGED <<settings, policies, buckets, usage, files, upstream, running, pc, loc, issued>>

NextThreads ==
    \/ \E p \in Procs :
          \/ ThreadsCall(p) \/ ThreadsGet(p) \/ ThreadsNew(p)
          \/ ThreadsTakeNow(p) \/ ThreadsTakeElapsed(p) \/ ThreadsTakeStamp(p)
          \/ ThreadsTakeRefill(p) \/ ThreadsTakeRefillStore(p) \/ ThreadsTakeCompare(p)
          \/ ThreadsTakeDeduct(p) \/ ThreadsTakeDeductStore(p)
    \/ ThreadsClock

SpecThreads == InitThreads /\ [][NextThreads]_vars

\* The TokenBucket objects that exist: the one in the dict and the replaced ones.
AllBuckets ==
    {buckets[k] : k \in DOMAIN buckets}
        \cup {loc[c].made.bucket : c \in {q \in Procs : loc[q].made.state = "orphan"}}

\* C16: under concurrent check calls on one key no call ends with anything
\* but a return or the 429 rejection, and no bucket ever holds fewer than
\* 0 or more than capacity tokens.
C16_BucketsIntact ==
    /\ \A p \in Procs : loc[p].exc \in {NoExc, HTTPException(429, "Rate limit exceeded")}
    /\ \A bucket \in AllBuckets : 0 <= bucket.tokens /\ bucket.tokens <= bucket.capacity

----------------------------------------------------------------------------
(* Concurrent callers of AuditLogger.write, system call by system call     *)
(*                                                                         *)
(* In this scenario a partition is the sequence of the blocks that the     *)
(* write(2) calls appended to it; block i of the line of event e is        *)
(* <<e, i>>, and the last block of a line ends with its "\n".              *)
(* f.write(line + "\n") hands the whole line to the buffered writer, which *)
(* passes it to write(2) in one call, at flush or close, and calls again   *)
(* for the rest when write(2) transferred less than it was given.  One     *)
(* write(2) on a file opened in append mode adds its bytes at the end of   *)
(* the file in one piece, and transfers at most MaxRawWrite blocks (on     *)
(* Linux, at most 0x7ffff000 bytes).                                       *)

MaxRawWrite == 2
LineSizes == {1, 2, 3}

InitWriters == InitShared /\ policies = EmptyFn

\* A thread calls audit.write(ev); line = json.dumps(ev.__dict__), and
\* out_path is the partition of ts_ms = 0 for every event.
WritersCall(p) ==
    /\ pc[p] = "idle"
    /\ CallsMade(Procs) <= MaxCalls
    /\ \E n \in LineSizes :
        loc' = [loc EXCEPT ![p].calls = @ + 1, ![p].written = 0,
                           ![p].line = [request_id |-> <<p, loc[p].calls + 1>>,
                                        ts_ms |-> 0, size |-> n]]
    /\ pc' = [pc EXCEPT ![p] = "write_open"]
    /\ UNCHANGED <<now, settings, policies, buckets, usage, files, upstream, running, issued>>

\* out_path.open("a", encoding="utf-8"): the file is created when absent.
WritersOpen(p) ==
    /\ pc[p] = "write_open"
    /\ LET out_path == path_for_event(loc[p].line.ts_ms) IN
        files' = IF out_path \in DOMAIN files THEN files ELSE (out_path :> <<>>) @@ files
    /\ pc' = [pc EXCEPT ![p] = "write_raw"]
    /\ UNCHANGED <<now, settings, policies, buckets, usage, upstream, running, loc, issued>>

\* One write(2) of the flush of f.write(line + "\n"); the file is closed
\* when the whole line has been transferred.
WritersRawWrite(p) ==
    /\ pc[p] = "write_raw"
    /\ LET out_path == path_for_event(loc[p].line.ts_ms)
           n == Min(loc[p].line.size - loc[p].written, MaxRawWrite)
           blocks == [i \in 1..n |-> <<loc[p].line.request_id, loc[p].written + i>>]
       IN  /\ files' = [files EXCEPT ![out_path] = @ \o blocks]
           /\ loc' = [loc EXCEPT ![p].written = @ + n]
           /\ pc' = [pc EXCEPT ![p] = IF loc[p].written + n = loc[p].line.size
                                      THEN "idle" ELSE "write_raw"]
    /\ UNCHANGED <<now, settings, policies, buckets, usage, upstream, running, issued>>

NextWriters == \E p \in Procs : WritersCall(p) \/ WritersOpen(p) \/ WritersRawWrite(p)

SpecWriters == InitWriters /\ [][NextWriters]_vars

\* C17: in every partition the blocks of an event's line are contiguous and
\* in order: two neighbouring blocks are block i and block i + 1 of one
\* line, or the last block of one line and the first block of another.
C17_LinesWhole ==
    \A d \in DOMAIN files : \A i \in 1..(Len(files[d]) - 1) :
        LET x == files[d][i]
            y == files[d][i + 1]
        IN  IF x[1] = y[1] THEN y[2] = x[2] + 1
            ELSE y[2] = 1 /\ \A j \in (i + 1)..Len(files[d]) : files[d][j][1] # x[1]

----------------------------------------------------------------------------
(* redact_text on characters (redaction.py)                                *)
(*                                                                         *)
(* Here a text is a sequence of one-character strings, and a compiled      *)
(* pattern is a sequence of items: a word boundary, a greedy repetition of *)
(* a character class, or an alternation of sub-patterns tried in order.    *)
(* The alphabet is ASCII.                                                  *)

Digit == {"0", "1", "2", "3", "4", "5", "6", "7", "8", "9"}
UpperAZ == {"A", "B", "C", "D", "E", "F", "G", "H", "I", "J", "K", "L", "M", "N", "O", "P", "Q", "R", "S", "T", "U", "V", "W", "X", "Y", "Z"}
LowerAZ == {"a", "b", "c", "d", "e", "f", "g", "h", "i", "j", "k", "l", "m", "n", "o", "p", "q", "r", "s", "t", "u", "v", "w", "x", "y", "z"}
Alnum == Digit \cup UpperAZ \cup LowerAZ
\* \w and \s
WordChars == Alnum \cup {"_"}
Space == {" ", "\t", "\n"}

B == [k |-> "b"]
Cls(set, min, max) == [k |-> "cls", set |-> set, neg |-> FALSE, min |-> min, max |-> max]
NotCls(set, min, max) == [k |-> "cls", set |-> set, neg |-> TRUE, min |-> min, max |-> max]
Alt(alts) == [k |-> "alt", alts |-> alts]
Opt(sub) == Alt(<<sub, <<>>>>)
Ch(c) == Cls({c}, 1, 1)
\* A literal, and a literal under (?i) (the letters of the model's keywords).
Chars(s) == [i \in 1..Len(s) |-> Ch(s[i])]
BothCases(c) ==
    CASE c = "a" -> {"a", "A"} [] c = "b" -> {"b", "B"} [] c = "d" -> {"d", "D"}
      [] c = "e" -> {"e", "E"} [] c = "o" -> {"o", "O"} [] c = "p" -> {"p", "P"}
      [] c = "r" -> {"r", "R"} [] c = "s" -> {"s", "S"} [] c = "w" -> {"w", "W"}
      [] OTHER -> {c}
CharsI(s) == [i \in 1..Len(s) |-> Cls(BothCases(s[i]), 1, 1)]
Unbounded == -1

\* \b at position pos: exactly one of the characters before and at pos is \w.
IsWord(text, i) == i >= 1 /\ i <= Len(text) /\ text[i] \in WordChars
Boundary(text, pos) == IsWord(text, pos - 1) # IsWord(text, pos)

\* The longest run of characters of the item's class that starts at pos.
RunLen(it, text, pos) ==
    LET cap == IF it.max = Unbounded THEN Len(text) - pos + 1
               ELSE Min(it.max, Len(text) - pos + 1)
        good == {n \in 0..cap : \A j \in pos..(pos + n - 1) : (text[j] \in it.set) # it.neg}
    IN  CHOOSE n \in good : \A m \in good : m <= n

\* pat.match(text, pos): the position after the match the backtracking
\* matcher finds first (greedy repetitions, alternatives in order), 0 when
\* there is none.
RECURSIVE MatchEnd(_, _, _)
RECURSIVE TryDown(_, _, _, _, _)
RECURSIVE TryAlts(_, _, _, _)
MatchEnd(items, text, pos) ==
    IF items = <<>> THEN pos
    ELSE LET it == Head(items)
             rest == Tail(items)
         IN  CASE it.k = "b" -> IF Boundary(text, pos) THEN MatchEnd(rest, text, pos) ELSE 0
               [] it.k = "cls" -> TryDown(rest, text, pos, RunLen(it, text, pos), it.min)
               [] it.k = "alt" -> TryAlts(it.alts, rest, text, pos)

TryDown(rest, text, pos, n, min) ==
    IF n < min THEN 0
    ELSE LET r == MatchEnd(rest, text, pos + n)
         IN  IF r # 0 THEN r ELSE TryDown(rest, text, pos, n - 1, min)

TryAlts(alts, rest, text, pos) ==
    IF alts = <<>> THEN 0
    ELSE LET r == MatchEnd(Head(alts) \o rest, text, pos)
         IN  IF r # 0 THEN r ELSE TryAlts(Tail(alts), rest, text, pos)

\* _replacement(kind, raw): "[REDACTED:" + kind + "]"
KindChars(kind) ==
    CASE kind = "openai_key" -> <<"o", "p", "e", "n", "a", "i", "_", "k", "e", "y">>
      [] kind = "aws_access_key" -> <<"a", "w", "s", "_", "a", "c", "c", "e", "s", "s", "_", "k", "e", "y">>
      [] kind = "jwt" -> <<"j", "w", "t">>
      [] kind = "password_kv" -> <<"p", "a", "s", "s", "w", "o", "r", "d", "_", "k", "v">>
      [] kind = "bearer_token" -> <<"b", "e", "a", "r", "e", "r", "_", "t", "o", "k", "e", "n">>
      [] kind = "email" -> <<"e", "m", "a", "i", "l">>
      [] kind = "phone" -> <<"p", "h", "o", "n", "e">>
replacement(kind) == <<"[", "R", "E", "D", "A", "C", "T", "E", "D", ":">> \o KindChars(kind) \o <<"]">>

\* pat.subn(repl, text) from position pos on: the matches from left to
\* right, none overlapping another, each replaced by repl.
RECURSIVE subn_from(_, _, _, _)
subn_from(pat, repl, text, pos) ==
    LET starts == {i \in pos..Len(text) : MatchEnd(pat, text, i) > i}
    IN  IF starts = {} THEN [text |-> SubSeq(text, pos, Len(text)), n |-> 0]
        ELSE LET i == CHOOSE x \in starts : \A y \in starts : x <= y
                 r == subn_from(pat, repl, text, MatchEnd(pat, text, i))
             IN  [text |-> SubSeq(text, pos, i - 1) \o repl \o r.text, n |-> r.n + 1]

subn(pat, repl, text) == subn_from(pat, repl, text, 1)

\* _PATTERNS, _EMAIL and _PHONE
PatOpenAIKey_twenty_one == <<B>> \o Chars(<<"s", "k", "-">>) \o <<Cls(Alnum, 21, Unbounded), B>>

PatOpenAIKey == <<B>> \o Chars(<<"s", "k", "-">>) \o <<Cls(Alnum, 20, Unbounded), B>>
PatAwsAccessKey == <<B>> \o Chars(<<"A", "K", "I", "A">>) \o <<Cls(Digit \cup UpperAZ, 16, 16), B>>
JwtChars == Alnum \cup {"_", "-"}
PatJwt ==
    <<B>> \o Chars(<<"e", "y", "J">>)
        \o <<Cls(JwtChars, 1, Unbounded), Ch("."), Cls(JwtChars, 1, Unbounded), Ch("."),
             Cls(JwtChars, 1, Unbounded), B>>
PatPasswordKv ==
    <<B, Alt(<<CharsI(<<"p", "a", "s", "s", "w", "o", "r", "d">>), CharsI(<<"p", "a", "s", "s", "w", "d">>),
               CharsI(<<"p", "w", "d">>)>>),
      Cls(Space, 0, Unbounded), Cls({":", "="}, 1, 1), Cls(Space, 0, Unbounded),
      NotCls(Space \cup {",", ";"}, 6, Unbounded)>>
PatBearerToken ==
    <<B>> \o CharsI(<<"b", "e", "a", "r", "e", "r">>)
        \o <<Cls(Space, 1, Unbounded), Cls(Alnum \cup {".", "_", "-"}, 20, Unbounded)>>
EMAIL ==
    <<B, Cls(Alnum \cup {".", "_", "%", "+", "-"}, 1, Unbounded), Ch("@"),
      Cls(Alnum \cup {".", "-"}, 1, Unbounded), Ch("."),
      Cls(UpperAZ \cup LowerAZ, 2, Unbounded), B>>
PhoneSep == {"-", "."} \cup Space
PHONE ==
    <<B, Opt(<<Opt(<<Ch("+")>>), Ch("1"), Cls(PhoneSep, 0, 1)>>),
      Alt(<< <<Ch("("), Cls(Digit, 3, 3), Ch(")")>>, <<Cls(Digit, 3, 3)>> >>),
      Cls(PhoneSep, 0, 1), Cls(Digit, 3, 3), Cls(PhoneSep, 0, 1), Cls(Digit, 4, 4), B>>

PATTERNS ==
    <<[name |-> "openai_key", pat |-> PatOpenAIKey],
      [name |-> "aws_access_key", pat |-> PatAwsAccessKey],
      [name |-> "jwt", pat |-> PatJwt],
      [name |-> "password_kv", pat |-> PatPasswordKv],
      [name |-> "bearer_token", pat |-> PatBearerToken]>>
EmailPhone == <<[name |-> "email", pat |-> EMAIL], [name |-> "phone", pat |-> PHONE]>>

\* The loop of redact_text over a list of patterns: out, n = pat.subn(...);
\* _bump(name, n).
RECURSIVE redact_passes(_, _, _)
redact_passes(pats, out, counts) ==
    IF pats = <<>> THEN [text |-> out, counts |-> counts]
    ELSE LET r == subn(Head(pats).pat, replacement(Head(pats).name), out)
         IN  redact_passes(Tail(pats), r.text, Bump(counts, Head(pats).name, r.n))

\* redact_text(text, redact_emails_phones=flag) on a text of characters.
redact_text_chars(text, redact_emails_phones) ==
    redact_passes(IF redact_emails_phones THEN PATTERNS \o EmailPhone ELSE PATTERNS,
                  text, EmptyFn)

----------------------------------------------------------------------------
(* Callers of redact_text on bounded texts                                 *)

MaxSegs == 3        \* segments a text of the scenario is made of

\* The two inputs of the tests, and the segments the other texts are made of.
TextOpenAIKey == <<"p", "l", "e", "a", "s", "e", " ", "u", "s", "e", " ", "s", "k", "-", "1", "2", "3", "4", "5", "6", "7", "8", "9", "0", "a", "b", "c", "d", "e", "f", "g", "h", "i", "j", "k", "l", "m", "n", "o", "p", " ", "f", "o", "r", " ", "a", "u", "t", "h">>
TextPassword == <<"p", "a", "s", "s", "w", "o", "r", "d", "=", "s", "u", "p", "e", "r", "s", "e", "c", "r", "e", "t", "1", "2", "3">>
Rep(c, n) == [i \in 1..n |-> c]
Segments ==
    {<<"s", "k", "-">> \o Rep("a", 20),
     <<"s", "k", "-">> \o Rep("a", 19),
     <<"_">>, <<" ">>, <<"x">>, <<",">>,
     <<"p", "a", "s", "s", "w", "o", "r", "d", "=">>,
     <<"P", "W", "D", " ", ":", " ">>,
     <<"s", "e", "c", "r", "e", "t">>,
     <<"a", "b", "c">>,
     <<"a", "@", "b", ".", "c", "o">>}

RECURSIVE TextsOf(_)
TextsOf(n) ==
    IF n = 0 THEN {<<>>}
    ELSE TextsOf(n - 1) \cup {t \o s : t \in TextsOf(n - 1), s \in Segments}

RedactInputs == TextsOf(MaxSegs) \cup {TextOpenAIKey, TextPassword}

InitRedact ==
    /\ now = 0
    /\ settings \in {[DefaultSettings EXCEPT !.redact_emails_phones = f] : f \in BOOLEAN}
    /\ policies = EmptyFn
    /\ buckets = EmptyFn
    /\ usage = EmptyFn
    /\ files = EmptyFn
    /\ upstream = <<>>
    /\ running = 0
    /\ pc = [p \in Procs |-> "idle"]
    /\ loc \in {[p \in Procs |-> IF p = 1 THEN [InitLocals EXCEPT !.prompt_raw = t]
                                 ELSE InitLocals] : t \in RedactInputs}
    /\ issued = EmptyFn

\* red = redact_text(prompt_raw, redact_emails_phones=settings.redact_emails_phones)
RedactCall(p) ==
    /\ p = 1
    /\ pc[p] = "idle"
    /\ loc' = [loc EXCEPT ![p].red =
                  redact_text_chars(loc[p].prompt_raw, settings.redact_emails_phones)]
    /\ pc' = [pc EXCEPT ![p] = "done"]
    /\ UNCHANGED <<now, settings, policies, buckets, usage, files, upstream, running, issued>>

NextRedact == \E p \in Procs : RedactCall(p)

SpecRedact == InitRedact /\ [][NextRedact]_vars

\* The first position from j on that holds no character of the set S.
RunEnd(S, text, j) ==
    LET stops == {e \in j..(Len(text) + 1) : e = Len(text) + 1 \/ text[e] \notin S}
    IN  CHOOSE e \in stops : \A f \in stops : e <= f

\* The first position from j on that holds a character of the set S.
RunEndNot(S, text, j) ==
    LET stops == {e \in j..(Len(text) + 1) : e = Len(text) + 1 \/ text[e] \in S}
    IN  CHOOSE e \in stops : \A f \in stops : e <= f

\* The spelling in lower case of the letters of the keywords.
Lower(c) ==
    CASE c = "A" -> "a" [] c = "D" -> "d" [] c = "O" -> "o" [] c = "P" -> "p"
      [] c = "R" -> "r" [] c = "S" -> "s" [] c = "W" -> "w" [] OTHER -> c
LowerAt(text, i, n) == [j \in 1..n |-> Lower(text[i + j - 1])]

\* An openai-key-shaped token starts at i: "sk-" and at least 20
\* alphanumerics, with no word character right before or right after; the
\* value is the position after the token, 0 when there is no token at i.
KeyTokenEnd(text, i) ==
    IF /\ i + 2 <= Len(text)
       /\ SubSeq(text, i, i + 2) = <<"s", "k", "-">>
       /\ ~IsWord(text, i - 1)
       /\ RunEnd(Alnum, text, i + 3) - (i + 3) >= 20
       /\ ~IsWord(text, RunEnd(Alnum, text, i + 3))
    THEN RunEnd(Alnum, text, i + 3) ELSE 0

\* A password key-value pair starts at i: the key password, passwd or pwd in
\* any case and not inside a word, ":" or "=" with optional white space
\* around it, and a value of at least 6 characters none of which is white
\* space, "," or ";"; the value is the position after the pair, 0 when
\* there is no pair at i.
PasswordKeys == {<<"p", "a", "s", "s", "w", "o", "r", "d">>, <<"p", "a", "s", "s", "w", "d">>,
                 <<"p", "w", "d">>}
PairEnd(text, i) ==
    LET keys == {w \in PasswordKeys :
                    i + Len(w) - 1 <= Len(text) /\ LowerAt(text, i, Len(w)) = w}
    IN  IF keys = {} \/ IsWord(text, i - 1) THEN 0
        ELSE LET w == CHOOSE x \in keys : TRUE
                 sep == RunEnd(Space, text, i + Len(w))
             IN  IF sep > Len(text) \/ text[sep] \notin {":", "="} THEN 0
                 ELSE LET val == RunEnd(Space, text, sep + 1)
                          end == RunEndNot(Space \cup {",", ";"}, text, val)
                      IN  IF end - val >= 6 THEN end ELSE 0

TokenEnd(kind, text, i) ==
    IF kind = "openai_key" THEN KeyTokenEnd(text, i) ELSE PairEnd(text, i)

\* The text with the tokens of a kind, taken from left to right, replaced
\* by the literal "[REDACTED:<kind>]", and the number of tokens replaced.
RECURSIVE Replaced(_, _, _)
Replaced(kind, text, pos) ==
    LET starts == {i \in pos..Len(text) : TokenEnd(kind, text, i) # 0}
    IN  IF starts = {} THEN [text |-> SubSeq(text, pos, Len(text)), n |-> 0]
        ELSE LET i == CHOOSE x \in starts : \A y \in starts : x <= y
                 r == Replaced(kind, text, TokenEnd(kind, text, i))
             IN  [text |-> SubSeq(text, pos, i - 1) \o replacement(kind) \o r.text,
                  n |-> r.n + 1]

\* The redaction the claim describes: the openai-key-shaped tokens replaced
\* first, then (after the aws_access_key and jwt passes) the password pairs,
\* then the remaining passes.
Described(text, flag) ==
    LET r1 == Replaced("openai_key", text, 1)
        r3 == redact_passes(SubSeq(PATTERNS, 2, 3), r1.text, EmptyFn)
        r4 == Replaced("password_kv", r3.text, 1)
        r5 == redact_passes(IF flag THEN SubSeq(PATTERNS, 5, 5) \o EmailPhone
                            ELSE SubSeq(PATTERNS, 5, 5), r4.text, EmptyFn)
    IN  [text |-> r5.text, openai_key |-> r1.n, password_kv |-> r4.n]

\* counts.get(name, 0)
CountOf(counts, name) == IF name \in DOMAIN counts THEN counts[name] ELSE 0

\* The text holds the characters of s somewhere.
Contains(text, s) ==
    \E i \in 1..(Len(text) - Len(s) + 1) : SubSeq(text, i, i + Len(s) - 1) = s

----------------------------------------------------------------------------
(* One caller of UsageStore.add, get and snapshot, one call at a time      *)

StoreKeys == {KeyDemo, KeyShort}
StoreTimes == {0, SecondsPerDay}
StoreTriples == {<<"day", day_key(0), KeyDemo>>, <<"month", month_key(0), KeyDemo>>,
                 <<"day", day_key(0), KeyShort>>}
StoreDeltas == {<<1, 1, 0>>, <<1, 2, 1>>, <<1, -3, 0>>}

InitStore ==
    /\ InitShared
    /\ policies = load_key_policies({KeyPolicy(KeyDemo, "demo", 30, 2, 3, 100, 0, 0),
                                     KeyPolicy(KeyShort, "t2", 2, 1, 3, 100, 0, 0)})

\* store.add(...): the SELECT, then the INSERT or UPDATE, then the commit.
StoreAdd(p) ==
    /\ p = 1
    /\ loc[p].calls < MaxRounds
    /\ \E t \in StoreTriples, delta \in StoreDeltas :
        LET call == [triple |-> t, tenant |-> policies[t[3]].tenant, delta |-> delta]
            cur == SelectRow(usage, t)
            r == AddWrite(usage, call, cur)
        IN  /\ usage' = r.usage
            /\ loc' = [loc EXCEPT ![p].call = call, ![p].cur = cur, ![p].exc = r.exc,
                                  ![p].calls = @ + 1, ![p].nAdd = @ + 1]
            /\ issued' = IssuedAdd(issued, t, delta)
    /\ pc' = [pc EXCEPT ![p] = "add_returned"]
    /\ UNCHANGED <<now, settings, policies, buckets, files, upstream, running>>

\* store.get(scope, scope_key, api_key)
StoreGetCall(p) ==
    /\ p = 1
    /\ loc[p].calls < MaxRounds
    /\ \E t \in StoreTriples :
        loc' = [loc EXCEPT ![p].call = [NoCall EXCEPT !.triple = t],
                           ![p].d = StoreGet(usage, t),
                           ![p].calls = @ + 1, ![p].nGet = @ + 1]
    /\ pc' = [pc EXCEPT ![p] = "get_returned"]
    /\ UNCHANGED <<now, settings, policies, buckets, usage, files, upstream, running, issued>>

\* store.snapshot(api_key): the two keys of the clock reading and two gets.
snapshot(u, api_key, t) ==
    [dk |-> day_key(t), mk |-> month_key(t),
     day |-> StoreGet(u, <<"day", day_key(t), api_key>>),
     month |-> StoreGet(u, <<"month", month_key(t), api_key>>)]

StoreSnapshot(p) ==
    /\ p = 1
    /\ loc[p].calls < MaxRounds
    /\ \E k \in StoreKeys :
        loc' = [loc EXCEPT ![p].call = [NoCall EXCEPT !.triple = <<"", <<>>, k>>],
                           ![p].snap = snapshot(usage, k, now),
                           ![p].calls = @ + 1, ![p].nGet = @ + 2]
    /\ pc' = [pc EXCEPT ![p] = "snapshot_returned"]
    /\ UNCHANGED <<now, settings, policies, buckets, usage, files, upstream, running, issued>>

StoreClock ==
    /\ \E t \in StoreTimes \ {now} : now' = t
    /\ UNCHANGED <<settings, policies, buckets, usage, files, upstream, running, pc, loc, issued>>

NextStore ==
    \/ \E p \in Procs : StoreAdd(p) \/ StoreGetCall(p) \/ StoreSnapshot(p)
    \/ StoreClock

SpecStore == InitStore /\ [][NextStore]_vars

\* The sum of the deltas added to a triple so far; zeros when none was.
SumAdded(t) == IF t \in DOMAIN issued THEN issued[t] ELSE Zero3

\* C19: with calls made one at a time, get returns (0, 0, 0) for a triple
\* never added to and otherwise the sum of the deltas added to it (and so
\* does snapshot for the two triples it reads); no add raises; a get or a
\* snapshot changes no row; an add changes no row but its own triple's.
C19_SumOfDeltas ==
    /\ [](/\ loc[1].exc = NoExc
          /\ pc[1] = "get_returned" => loc[1].d = SumAdded(loc[1].call.triple)
          /\ pc[1] = "snapshot_returned" =>
                LET k == loc[1].call.triple[3] IN
                /\ loc[1].snap.day = SumAdded(<<"day", loc[1].snap.dk, k>>)
                /\ loc[1].snap.month = SumAdded(<<"month", loc[1].snap.mk, k>>)
          /\ \A t \in DOMAIN usage : StoreGet(usage, t) = SumAdded(t)
          /\ DOMAIN usage = DOMAIN issued)
    /\ [][/\ loc'[1].nGet # loc[1].nGet => usage' = usage
          /\ loc'[1].nAdd # loc[1].nAdd =>
                \A t \in (DOMAIN usage \cup DOMAIN usage') \ {loc'[1].call.triple} :
                    t \in DOMAIN usage /\ t \in DOMAIN usage' /\ usage'[t] = usage[t]]_vars

\* Witness of C19: a get on a triple added to twice has returned the sum, a
\* get on a triple never added to has returned zeros while another row exists.
C19_Witness ==
    /\ pc[1] = "get_returned"
    /\ \/ /\ loc[1].nAdd >= 2
          /\ loc[1].call.triple \in DOMAIN issued
          /\ loc[1].d = <<2, 3, 1>>
       \/ /\ loc[1].call.triple \notin DOMAIN issued
          /\ DOMAIN usage # {}
          /\ loc[1].d = Zero3

----------------------------------------------------------------------------
(* The effect of one RateLimiter.check on the buckets                      *)

\* The last check the caller made.
LastCheck == loc[1].log[Len(loc[1].log)]

\* The tokens a key's bucket holds once refilled at the clock reading now,
\* in sixtieths of a token: a bucket not yet created starts at burst.
RefilledAt(bs, k) ==
    IF k \in DOMAIN bs
    THEN LET elapsed == IF now > bs[k].last_ts THEN now - bs[k].last_ts ELSE 0
             grown == bs[k].tokens + elapsed * policies[k].rpm
         IN  IF grown > bs[k].capacity THEN bs[k].capacity ELSE grown
    ELSE policies[k].burst * TokUnit

\* C20: a rejected check leaves the key's bucket at its refilled token count
\* (previous tokens plus elapsed * rpm / 60, clamped to capacity), capacity
\* and refill rate as they were; an admitted check deducts exactly one token
\* from the refilled count; a check with rpm <= 0 touches no bucket; and no
\* check changes the bucket of another key.
C20_RejectDeductsNothing ==
    [][Len(loc'[1].log) = Len(loc[1].log) + 1 =>
         LET c == LastCheck'
             k == c.key
             refilled == RefilledAt(buckets, k)
         IN  /\ \A k2 \in (DOMAIN buckets \cup DOMAIN buckets') \ {k} :
                    k2 \in DOMAIN buckets /\ k2 \in DOMAIN buckets'
                        /\ buckets'[k2] = buckets[k2]
             /\ policies[k].rpm <= 0 => c.ok /\ buckets' = buckets
             /\ policies[k].rpm > 0 =>
                    /\ k \in DOMAIN buckets'
                    /\ buckets'[k].capacity = policies[k].burst * TokUnit
                    /\ buckets'[k].refill_per_sec = policies[k].rpm
                    /\ k \in DOMAIN buckets =>
                           /\ buckets'[k].capacity = buckets[k].capacity
                           /\ buckets'[k].refill_per_sec = buckets[k].refill_per_sec
                    /\ c.ok <=> refilled >= TokUnit
                    /\ ~c.ok => buckets'[k].tokens = refilled
                    /\ c.ok => buckets'[k].tokens = refilled - TokUnit]_vars

\* Witness of C20: half a minute after the admitted first check of a key
\* with rpm = 1 and burst = 1 the second is rejected and leaves the half
\* token refilled in the bucket, beside the bucket of the other key.
C20_Witness ==
    /\ Len(loc[1].log) >= 2
    /\ LastCheck.key = KeyDemo /\ ~LastCheck.ok /\ LastCheck.t = now
    /\ KeyDemo \in DOMAIN buckets /\ KeyShort \in DOMAIN buckets
    /\ buckets[KeyDemo].capacity = TokUnit
    /\ buckets[KeyDemo].tokens = TokUnit \div 2

----------------------------------------------------------------------------
(* What leaves the proxy: the prompt sent upstream and its fingerprint     *)

\* The text redact_text returns for the request of p.
SanitizedOf(p) ==
    redact_text(build_prompt(loc[p].body.messages), settings.redact_emails_phones).text

\* The audit events written so far, of all partitions.
AuditEvents == UNION {{files[d][i] : i \in 1..Len(files[d])} : d \in DOMAIN files}

\* C21: every call the upstream collaborator received carries the text
\* redact_text returned for that request, which is not the raw prompt when
\* the raw prompt holds a secret, whatever store_raw_in_audit is; and the
\* fingerprint of every audit event is the digest of that sanitized text.
C21_UpstreamGetsSanitized ==
    /\ \A i \in 1..Len(upstream) :
        LET u == upstream[i]
            raw == build_prompt(loc[u.request].body.messages)
        IN  /\ u.prompt = SanitizedOf(u.request)
            /\ (\E j \in 1..Len(raw), kind \in {"openai_key", "password_kv"} :
                    Matches(kind, raw[j])) => u.prompt # raw
    /\ \A ev \in AuditEvents :
        /\ ev.prompt_fingerprint_sha256 = prompt_fingerprint(SanitizedOf(ev.request_id))
        /\ \E i \in 1..Len(upstream) :
            /\ upstream[i].request = ev.request_id
            /\ ev.prompt_fingerprint_sha256 = prompt_fingerprint(upstream[i].prompt)

\* Witness of C21: with store_raw_in_audit set, a request whose prompt holds
\* a key has been sent upstream with the placeholder in its place and its
\* audit event, which keeps the raw prompt, carries the digest of the text sent.
C21_Witness ==
    /\ settings.store_raw_in_audit
    /\ \E ev \in AuditEvents, i \in 1..Len(upstream) :
        /\ upstream[i].request = ev.request_id
        /\ ev.request_raw.some
        /\ \E j \in 1..Len(ev.request_raw.prompt) : ev.request_raw.prompt[j] = WordOpenAIKey
        /\ upstream[i].prompt # ev.request_raw.prompt
        /\ \E j \in 1..Len(upstream[i].prompt) : upstream[i].prompt[j] = Placeholder("openai_key")
        /\ ev.prompt_fingerprint_sha256 = prompt_fingerprint(upstream[i].prompt)

----------------------------------------------------------------------------
(* The admissions of one key over an interval of time                      *)

\* The checks of a key were made at non-decreasing clock readings.
NonDecreasing(c) == \A n \in 1..(Len(c) - 1) : c[n].t <= c[n + 1].t

\* The checks n of i..j that were admitted.
AdmittedIn(c, i, j) == Cardinality({n \in i..j : c[n].ok})

\* Checks i..j of a key admit at most burst + rpm * T / 60 calls, T the time
\* from check i to check j (both sides in sixtieths).
WithinBound(c, i, j, rpm, burst) ==
    AdmittedIn(c, i, j) * TokUnit <= burst * TokUnit + rpm * (c[j].t - c[i].t)

\* C22: for every key with rpm = R > 0 and burst = B whose sequential checks
\* were made at non-decreasing clock readings, the admitted calls with
\* timestamps in any interval of T seconds number at most B + R * T / 60.
C22_AdmissionBound ==
    \A k \in DOMAIN policies :
        LET c == ChecksOf(k) IN
        (policies[k].rpm > 0 /\ NonDecreasing(c)) =>
            \A i \in 1..Len(c), j \in 1..Len(c) :
                i <= j => WithinBound(c, i, j, policies[k].rpm, policies[k].burst)

----------------------------------------------------------------------------
(* The scope keys of one charge                                            *)

\* record_usage of p holds both its keys and has an add ahead or under way.
Charging(p) == pc[p] \in {"day_select", "day_write", "month_select", "month_write"}

\* C23: whenever record_usage has read its two keys, the month key is the
\* year-month of the day key; and the day key record_usage reads is the day
\* key enforce_budgets read for the same request.
C23_ScopeKeysConsistent ==
    /\ [](\A p \in Procs : Charging(p) => loc[p].mk = MonthOf(loc[p].dk))
    /\ [][\A p \in Procs :
            (pc[p] = "record_dk" /\ pc'[p] = "record_mk") => loc'[p].dk = loc[p].dk]_vars

----------------------------------------------------------------------------
(* The counts of redact_text against its output                            *)

Categories == {"openai_key", "aws_access_key", "jwt", "password_kv", "bearer_token",
               "email", "phone"}

\* text.count(s) for a placeholder s (its occurrences cannot overlap).
Occurrences(text, s) ==
    Cardinality({i \in 1..(Len(text) - Len(s) + 1) : SubSeq(text, i, i + Len(s) - 1) = s})

\* C24: for every text without a "[REDACTED:" literal that redact_text was
\* called on, and every category, counts[category] (0 if absent) is the
\* number of occurrences of "[REDACTED:category]" in the text returned.
C24_CountsMatchOutput ==
    (pc[1] = "done" /\ ~Contains(loc[1].prompt_raw, SubSeq(replacement("jwt"), 1, 10))) =>
        \A kind \in Categories :
            CountOf(loc[1].red.counts, kind) = Occurrences(loc[1].red.text, replacement(kind))

====
